---- MODULE Spec2Model ----
(***************************************************************************)
(* The unfurl engine of rowhouse: JsonProcessor._traverse                  *)
(* (src/unfurl/json_processor.py), the path-driven traversal that turns    *)
(* one nested document into a sequence of flat rows.                       *)
(*                                                                         *)
(* JSON values are tagged records: an object carries a function from its   *)
(* keys to values, an array a sequence, a scalar an opaque identifier (a   *)
(* tuple of numbers: the traversal never looks inside a scalar).  A field  *)
(* source such as "orders[].items[].sku" is the sequence of its tokens     *)
(* <<"orders","[]",".","items","[]",".","sku">>: names, the "[]" marker    *)
(* and the "." separator, so that split('.'), replace('[]','') and         *)
(* startswith(key + '[]') are computed and not assumed.  A row is a        *)
(* function from aliases to values; an alias that is not in its domain is  *)
(* the null the assembled table shows.                                     *)
(***************************************************************************)
EXTENDS Integers, Sequences, FiniteSets, TLC

\* One call of _traverse: its arguments, the iteration order of its key set and
\* the rows it returns.
VARIABLES config, data, key_order, rows, pc

\* A DataValidator: the arguments of its latest call, what the call returned,
\* the validator's _last_result, the method called and the number of calls made.
VARIABLES series, allow_negative, result, last_result, vpc, ops

\* One call of JsonProcessor._enforce_datatypes: the processor's default_coerce,
\* the field list and the DataFrame, before and after.
VARIABLES default_coerce, fields, df, epc

\* A JsonProcessor at work on batches: its split_path and config, its file
\* metadata, the batch and what split_messages and process_messages returned.
VARIABLES split_path, processor_config, filepath, last_modified, raw_data,
          split_lists, dataframes, bpc

\* A ValidationResult and the add_warning and add_error calls made on it.
VARIABLES vresult, calls

\* One call of JsonProcessor._extract_path: the source and what the call gave.
VARIABLES field_source, extracted

traverseVars == <<config, data, key_order, rows, pc>>
validatorVars == <<series, allow_negative, result, last_result, vpc, ops>>
enforceVars == <<default_coerce, fields, df, epc>>
batchVars == <<split_path, processor_config, filepath, last_modified, raw_data,
               split_lists, dataframes, bpc>>

resultVars == <<vresult, calls>>
parseVars == <<field_source, extracted>>

vars == <<traverseVars, validatorVars, enforceVars, batchVars, resultVars, parseVars>>

\* Python's None.
None == [t |-> "none"]

\* The parts of the state that a behaviour of another part leaves out.
TraverseIdle ==
    /\ config = None /\ data = None /\ key_order = <<>> /\ rows = <<>> /\ pc = "idle"
ValidatorIdle ==
    /\ series = <<>> /\ allow_negative = TRUE /\ result = None /\ last_result = None
    /\ vpc = "idle" /\ ops = 0
EnforceIdle ==
    /\ default_coerce = FALSE /\ fields = <<>> /\ df = None /\ epc = "idle"
BatchIdle ==
    /\ split_path = <<>> /\ processor_config = <<>> /\ filepath = None
    /\ last_modified = None /\ raw_data = <<>> /\ split_lists = None
    /\ dataframes = None /\ bpc = "idle"
UnitsIdle ==
    /\ vresult = None /\ calls = <<>> /\ field_source = <<>> /\ extracted = None

(***************************************************************************)
(* Bounds of the model.                                                    *)
(***************************************************************************)
MaxLen == 2
MaxOuter == 2
MaxInner == 2
MaxDeep == 1

(***************************************************************************)
(* JSON values.                                                            *)
(***************************************************************************)
JNull == [t |-> "null"]
JScalar(id) == [t |-> "scalar", v |-> id]
JObject(f) == [t |-> "obj", kv |-> f]
JArray(s) == [t |-> "arr", el |-> s]

\* isinstance(d, dict), isinstance(d, list)
IsDict(d) == d.t = "obj"
IsList(d) == d.t = "arr"
\* isinstance(data, dict) and key in data
DictHas(d, key) == IsDict(d) /\ key \in DOMAIN d.kv

\* The empty dict {} as a row, and Python's truth value of a dict or list.
EmptyRow == <<>>
RowTruthy(row) == DOMAIN row # {}
\* combined = base.copy(); combined.update(sub)
Update(base, sub) == sub @@ base

(***************************************************************************)
(* Field sources: str.split('.'), '[]' in part, part.replace('[]', '').    *)
(***************************************************************************)
SplitDot(source) ==
    LET parts[i \in 0..Len(source)] ==
            IF i = 0 THEN << <<>> >>
            ELSE LET prev == parts[i - 1] IN
                 IF source[i] = "."
                 THEN Append(prev, <<>>)
                 ELSE [prev EXCEPT ![Len(prev)] = Append(@, source[i])]
    IN parts[Len(source)]

HasMarker(part) == \E i \in 1..Len(part) : part[i] = "[]"

\* The part without its markers; a part holds at most one name token.
StripMarker(part) ==
    LET kept == SelectSeq(part, LAMBDA tok : tok # "[]")
    IN IF kept = <<>> THEN "" ELSE kept[1]

ExtractPath(source) ==
    LET parts == SplitDot(source)
    IN [path |-> [i \in 1..Len(parts) |-> StripMarker(parts[i])],
        is_in_array |-> \E i \in 1..Len(parts) : HasMarker(parts[i])]

\* field['source'].split('.')[0].replace('[]', '')
TopLevelKey(source) == StripMarker(SplitDot(source)[1])

TopLevelKeys(cfg) == {TopLevelKey(cfg.fields[i].source) : i \in 1..Len(cfg.fields)}

\* source.startswith(key + '[]')
StartsWithMarked(source, key) ==
    IF key = ""
    THEN Len(source) >= 1 /\ source[1] = "[]"
    ELSE Len(source) >= 2 /\ source[1] = key /\ source[2] = "[]"

IsArrayKey(cfg, key) ==
    \E i \in 1..Len(cfg.fields) : StartsWithMarked(cfg.fields[i].source, key)

(***************************************************************************)
(* Row lists: extend, and the nested-loop cartesian product.               *)
(***************************************************************************)
\* An inner loop that skips a partial row that is an empty dict (if partial_row:).
CombineRowSkipEmpty(row, partial) ==
    LET acc[j \in 0..Len(partial)] ==
            IF j = 0 THEN <<>>
            ELSE IF RowTruthy(partial[j])
                 THEN Append(acc[j - 1], Update(row, partial[j]))
                 ELSE acc[j - 1]
    IN acc[Len(partial)]

\* for partial_row in partial: combined = row.copy(); combined.update(partial_row)
CombineRow(row, partial) ==
    LET acc[j \in 0..Len(partial)] ==
            IF j = 0 THEN <<>> ELSE Append(acc[j - 1], Update(row, partial[j]))
    IN acc[Len(partial)]

\* A product that pairs row i with partial row i (zip) instead of nesting the loops.
ProductZip(base_rows, partial) ==
    LET n == IF Len(base_rows) < Len(partial) THEN Len(base_rows) ELSE Len(partial)
    IN [i \in 1..n |-> Update(base_rows[i], partial[i])]

\* for row in rows: for partial_row in partial: new_rows.append(combined)
Product(base_rows, partial) ==
    LET acc[i \in 0..Len(base_rows)] ==
            IF i = 0 THEN <<>> ELSE acc[i - 1] \o CombineRow(base_rows[i], partial)
    IN acc[Len(base_rows)]

ProductAll(start, results) ==
    LET acc[i \in 0..Len(results)] ==
            IF i = 0 THEN start ELSE Product(acc[i - 1], results[i])
    IN acc[Len(results)]

IsPrefix(p, q) == Len(p) <= Len(q) /\ SubSeq(q, 1, Len(p)) = p

(***************************************************************************)
(* The recursive call, first pass (lines 93-122): the leaf values of the   *)
(* current level and the nested paths to recurse into, in insertion order. *)
(***************************************************************************)
IndexOfKey(paths, key) ==
    IF \E i \in 1..Len(paths) : paths[i].key = key
    THEN CHOOSE i \in 1..Len(paths) : paths[i].key = key
    ELSE 0

\* A first pass in which a path already registered for recursion blocks the leaf
\* fields listed after it (the blocking test_processor_bug.py describes).
FirstPassStepBlocking(acc, field, d, path_parts) ==
    LET ep == ExtractPath(field.source)
        path == ep.path
    IN IF ~IsPrefix(path_parts, path) THEN acc
       ELSE LET remaining == SubSeq(path, Len(path_parts) + 1, Len(path)) IN
            IF remaining = <<>> THEN acc
            ELSE LET key == remaining[1] IN
                 IF Len(remaining) = 1
                 THEN IF DictHas(d, key) /\ acc.paths = <<>>
                      THEN [acc EXCEPT !.row = Update(@, field.alias :> d.kv[key])]
                      ELSE acc
                 ELSE IF DictHas(d, key)
                      THEN LET at == IndexOfKey(acc.paths, key)
                               added == IF at = 0
                                        THEN Append(acc.paths,
                                                 [key |-> key, data |-> d.kv[key],
                                                  has_array |-> ep.is_in_array])
                                        ELSE acc.paths
                               pos == IF at = 0 THEN Len(added) ELSE at
                           IN [acc EXCEPT !.paths =
                                  IF ep.is_in_array
                                  THEN [added EXCEPT ![pos].has_array = TRUE]
                                  ELSE added]
                      ELSE acc

\* A first pass that takes the data of the call as the value of a field whose
\* path ends at the call's own path.
FirstPassStepWholeValue(acc, field, d, path_parts) ==
    LET ep == ExtractPath(field.source)
        path == ep.path
    IN IF ~IsPrefix(path_parts, path) THEN acc
       ELSE LET remaining == SubSeq(path, Len(path_parts) + 1, Len(path)) IN
            IF remaining = <<>> THEN [acc EXCEPT !.row = Update(@, field.alias :> d)]
            ELSE LET key == remaining[1] IN
                 IF Len(remaining) = 1
                 THEN IF DictHas(d, key)
                      THEN [acc EXCEPT !.row = Update(@, field.alias :> d.kv[key])]
                      ELSE acc
                 ELSE IF DictHas(d, key)
                      THEN LET at == IndexOfKey(acc.paths, key)
                               added == IF at = 0
                                        THEN Append(acc.paths,
                                                 [key |-> key, data |-> d.kv[key],
                                                  has_array |-> ep.is_in_array])
                                        ELSE acc.paths
                               pos == IF at = 0 THEN Len(added) ELSE at
                           IN [acc EXCEPT !.paths =
                                  IF ep.is_in_array
                                  THEN [added EXCEPT ![pos].has_array = TRUE]
                                  ELSE added]
                      ELSE acc

FirstPassStep(acc, field, d, path_parts) ==
    LET ep == ExtractPath(field.source)
        path == ep.path
    IN IF ~IsPrefix(path_parts, path) THEN acc
       ELSE LET remaining == SubSeq(path, Len(path_parts) + 1, Len(path)) IN
            IF remaining = <<>> THEN acc
            ELSE LET key == remaining[1] IN
                 IF Len(remaining) = 1
                 THEN IF DictHas(d, key)
                      THEN [acc EXCEPT !.row = Update(@, field.alias :> d.kv[key])]
                      ELSE acc
                 ELSE IF DictHas(d, key)
                      THEN LET at == IndexOfKey(acc.paths, key)
                               added == IF at = 0
                                        THEN Append(acc.paths,
                                                 [key |-> key, data |-> d.kv[key],
                                                  has_array |-> ep.is_in_array])
                                        ELSE acc.paths
                               pos == IF at = 0 THEN Len(added) ELSE at
                           IN [acc EXCEPT !.paths =
                                  IF ep.is_in_array
                                  THEN [added EXCEPT ![pos].has_array = TRUE]
                                  ELSE added]
                      ELSE acc

FirstPass(d, path_parts, row_so_far, cfg) ==
    LET acc[i \in 0..Len(cfg.fields)] ==
            IF i = 0 THEN [row |-> row_so_far, paths |-> <<>>]
            ELSE FirstPassStep(acc[i - 1], cfg.fields[i], d, path_parts)
    IN acc[Len(cfg.fields)]

\* Second pass, lines 126-136: array paths and dict paths.
IsArrayPath(info) == info.has_array /\ IsList(info.data)
IsDictPath(info) == ~IsArrayPath(info) /\ IsDict(info.data)

ArrayPaths(paths) == SelectSeq(paths, IsArrayPath)
DictPaths(paths) == SelectSeq(paths, IsDictPath)

(***************************************************************************)
(* _traverse.  key_iter is the order in which the set top_level_keys is    *)
(* iterated at the root.                                                   *)
(***************************************************************************)
RECURSIVE Traverse(_, _, _, _, _)

\* An element loop that stops one element early.
TraverseItemsSkipLast(items, path_parts, cfg, key_iter) ==
    LET acc[i \in 0..Len(items)] ==
            IF i = 0 \/ i = Len(items) THEN (IF i = 0 THEN <<>> ELSE acc[i - 1])
            ELSE acc[i - 1] \o Traverse(items[i], path_parts, EmptyRow, cfg, key_iter)
    IN acc[Len(items)]

\* Lines 61-64 and 153-156: one call per element, the non-empty results extended.
TraverseItems(items, path_parts, cfg, key_iter) ==
    LET acc[i \in 0..Len(items)] ==
            IF i = 0 THEN <<>>
            ELSE acc[i - 1] \o Traverse(items[i], path_parts, EmptyRow, cfg, key_iter)
    IN acc[Len(items)]

\* Lines 144-147: the dict paths, each traversed once; empty results are skipped.
DictSubResults(dict_paths, path_parts, cfg, key_iter) ==
    LET acc[i \in 0..Len(dict_paths)] ==
            IF i = 0 THEN <<>>
            ELSE LET sub_rows == Traverse(dict_paths[i].data,
                                          Append(path_parts, dict_paths[i].key),
                                          EmptyRow, cfg, key_iter)
                 IN IF sub_rows # <<>> THEN Append(acc[i - 1], sub_rows) ELSE acc[i - 1]
    IN acc[Len(dict_paths)]

\* An array loop in which an empty array is skipped like an array without rows.
ArrayLoopStepNoKill(acc, info, path_parts, cfg, key_iter) ==
    LET sub_rows_for_array ==
            TraverseItems(info.data.el, Append(path_parts, info.key), cfg, key_iter)
    IN IF sub_rows_for_array # <<>>
       THEN [acc EXCEPT !.results = Append(@, sub_rows_for_array)]
       ELSE acc

\* An array loop that stops at any array without rows, empty or not.
ArrayLoopStepKillRowless(acc, info, path_parts, cfg, key_iter) ==
    IF acc.empty_array_encountered THEN acc
    ELSE LET sub_rows_for_array ==
                 TraverseItems(info.data.el, Append(path_parts, info.key), cfg, key_iter)
         IN IF sub_rows_for_array # <<>>
            THEN [acc EXCEPT !.results = Append(@, sub_rows_for_array)]
            ELSE [acc EXCEPT !.empty_array_encountered = TRUE]

\* Lines 150-162: the array paths, until the first empty array.
ArrayLoopStep(acc, info, path_parts, cfg, key_iter) ==
    IF acc.empty_array_encountered THEN acc
    ELSE LET sub_rows_for_array ==
                 TraverseItems(info.data.el, Append(path_parts, info.key), cfg, key_iter)
         IN IF sub_rows_for_array # <<>>
            THEN [acc EXCEPT !.results = Append(@, sub_rows_for_array)]
            ELSE IF Len(info.data.el) = 0
                 THEN [acc EXCEPT !.empty_array_encountered = TRUE]
                 ELSE acc

ArrayLoop(array_paths, path_parts, cfg, key_iter) ==
    LET acc[i \in 0..Len(array_paths)] ==
            IF i = 0 THEN [results |-> <<>>, empty_array_encountered |-> FALSE]
            ELSE ArrayLoopStep(acc[i - 1], array_paths[i], path_parts, cfg, key_iter)
    IN acc[Len(array_paths)]

\* A combination that starts the product from {} and loses the leaf values.
CombineNestedDropLeaf(current_row, all_sub_results, empty_array_encountered) ==
    IF empty_array_encountered THEN <<>>
    ELSE IF all_sub_results # <<>>
         THEN ProductAll(<<EmptyRow>>, all_sub_results)
         ELSE IF RowTruthy(current_row) THEN <<current_row>> ELSE <<>>

\* Lines 164-184: the rows of a recursive call.
CombineNested(current_row, all_sub_results, empty_array_encountered) ==
    IF empty_array_encountered THEN <<>>
    ELSE IF all_sub_results # <<>>
         THEN ProductAll(<<current_row>>, all_sub_results)
         ELSE IF RowTruthy(current_row) THEN <<current_row>> ELSE <<>>

TraverseNested(d, path_parts, row_so_far, cfg, key_iter) ==
    LET first == FirstPass(d, path_parts, row_so_far, cfg)
        dicts == DictSubResults(DictPaths(first.paths), path_parts, cfg, key_iter)
        arrays == ArrayLoop(ArrayPaths(first.paths), path_parts, cfg, key_iter)
    IN CombineNested(first.row, dicts \o arrays.results, arrays.empty_array_encountered)

\* Lines 50-68: the partial result of one top-level key.
PartialResult(d, key, cfg, key_iter) ==
    IF ~(key \in DOMAIN d.kv) THEN <<>>
    ELSE LET key_data == d.kv[key] IN
         IF IsArrayKey(cfg, key) /\ IsList(key_data)
         THEN TraverseItems(key_data.el, <<key>>, cfg, key_iter)
         ELSE Traverse(key_data, <<key>>, EmptyRow, cfg, key_iter)

\* No placeholder: a branch with no rows empties the product.
NoPlaceholder(partial) == partial

\* Lines 73-75: a branch with no rows contributes one empty row.
OrPlaceholder(partial) == IF partial = <<>> THEN <<EmptyRow>> ELSE partial

\* A root combination that starts from rows = [] instead of rows = [{}].
TraverseRootEmptyStart(d, cfg, key_iter) ==
    LET acc[i \in 0..Len(key_iter)] ==
            IF i = 0 THEN <<>>
            ELSE Product(acc[i - 1],
                         OrPlaceholder(PartialResult(d, key_iter[i], cfg, key_iter)))
    IN acc[Len(key_iter)]

\* Lines 70-84: the cartesian product over the top-level keys as iterated.
TraverseRoot(d, cfg, key_iter) ==
    LET acc[i \in 0..Len(key_iter)] ==
            IF i = 0 THEN <<EmptyRow>>
            ELSE Product(acc[i - 1],
                         OrPlaceholder(PartialResult(d, key_iter[i], cfg, key_iter)))
    IN acc[Len(key_iter)]

Traverse(d, path_parts, row_so_far, cfg, key_iter) ==
    IF path_parts = <<>>
    THEN TraverseRoot(d, cfg, key_iter)
    ELSE TraverseNested(d, path_parts, row_so_far, cfg, key_iter)

(***************************************************************************)
(* Inputs: table configs as the tests write them, and for each the         *)
(* documents it is run on.                                                 *)
(***************************************************************************)
Field(source, alias) == [source |-> source, alias |-> alias]

\* A key a document does not hold.
Absent == [t |-> "absent"]
MkObj(f) == JObject([k \in {x \in DOMAIN f : f[x] # Absent} |-> f[k]])
ArraysOf(elems, n) == {JArray(s) : s \in UNION {[1..k -> elems] : k \in 0..n}}

HeaderVals == {Absent, JNull, MkObj("id" :> Absent), MkObj("id" :> JScalar(<<0>>))}

\* header.id, items[].name, items[].qty
SingleArrayConfig ==
    [fields |-> << Field(<<"header", ".", "id">>, "hid"),
                   Field(<<"items", "[]", ".", "name">>, "name"),
                   Field(<<"items", "[]", ".", "qty">>, "qty") >>]

ItemElems ==
    {JNull, MkObj("name" :> Absent), MkObj("name" :> JScalar(<<1>>)),
     MkObj(("name" :> JScalar(<<2>>)) @@ ("qty" :> JScalar(<<5>>)))}

SingleArrayDocs ==
    {MkObj(("header" :> h) @@ ("items" :> it)) :
        h \in HeaderVals, it \in {Absent, JNull} \cup ArraysOf(ItemElems, MaxLen)}

\* header.id, products[].sku, customers[].cid: two independent top-level arrays.
ParallelArraysConfig ==
    [fields |-> << Field(<<"header", ".", "id">>, "hid"),
                   Field(<<"products", "[]", ".", "sku">>, "psku"),
                   Field(<<"customers", "[]", ".", "cid">>, "cid") >>]

BoolSeqs(n) == UNION {[1..k -> BOOLEAN] : k \in 0..n}

\* Element i of the array holds the value <<tag, i>> under key, when it has the key.
TaggedArray(key, tag, has) ==
    JArray([i \in 1..Len(has) |->
               MkObj(key :> (IF has[i] THEN JScalar(<<tag, i>>) ELSE Absent))])

ParallelArraysDocs ==
    {MkObj(("header" :> h) @@ ("products" :> TaggedArray("sku", 1, p))
           @@ ("customers" :> TaggedArray("cid", 2, c))) :
        h \in {Absent, MkObj("id" :> JScalar(<<0>>))},
        p \in BoolSeqs(MaxLen),
        c \in BoolSeqs(MaxLen)}

\* header.id, orders[].orderId, orders[].meta.tag, orders[].notes[].text,
\* orders[].items[].sku: an array inside an array, next to a leaf, an object
\* branch and an array branch of the outer element.  Order i has the id <<i>>,
\* the tag <<i, 0>> and one note <<i, 0, 1>>, and its item j the sku <<i, j>>,
\* when they have one.
NestedArrayConfig ==
    [fields |-> << Field(<<"header", ".", "id">>, "hid"),
                   Field(<<"orders", "[]", ".", "orderId">>, "oid"),
                   Field(<<"orders", "[]", ".", "meta", ".", "tag">>, "tag"),
                   Field(<<"orders", "[]", ".", "notes", "[]", ".", "text">>, "note"),
                   Field(<<"orders", "[]", ".", "items", "[]", ".", "sku">>, "sku") >>]

\* The items of an order: all with a sku, or all but the last.
SkuFlags ==
    UNION {{[j \in 1..k |-> TRUE], [j \in 1..k |-> j < k]} : k \in 0..MaxInner}

OrderShapes ==
    {[has_id |-> h, has_items |-> FALSE, skus |-> <<>>] : h \in BOOLEAN}
    \cup {[has_id |-> h, has_items |-> TRUE, skus |-> f] : h \in BOOLEAN, f \in SkuFlags}

OrderOf(shape, i) ==
    MkObj(("orderId" :> (IF shape.has_id THEN JScalar(<<i>>) ELSE Absent))
          @@ ("meta" :> (IF shape.has_id THEN MkObj("tag" :> JScalar(<<i, 0>>)) ELSE Absent))
          @@ ("notes" :> (IF shape.has_id
                          THEN JArray(<< MkObj("text" :> JScalar(<<i, 0, 1>>)) >>)
                          ELSE Absent))
          @@ ("items" :> (IF shape.has_items
                          THEN JArray([j \in 1..Len(shape.skus) |->
                                   MkObj("sku" :> (IF shape.skus[j]
                                                   THEN JScalar(<<i, j>>)
                                                   ELSE Absent))])
                          ELSE Absent)))

NestedArrayDocs ==
    {MkObj(("header" :> MkObj("id" :> JScalar(<<0>>)))
           @@ ("orders" :> JArray([i \in 1..Len(shapes) |-> OrderOf(shapes[i], i)]))) :
        shapes \in UNION {[1..k -> OrderShapes] : k \in 0..MaxOuter}}

\* header.action, a[].b[].c[].value: arrays three levels deep.
DeepArrayConfig ==
    [fields |-> << Field(<<"header", ".", "action">>, "action"),
                   Field(<<"a", "[]", ".", "b", "[]", ".", "c", "[]", ".", "value">>,
                         "deep_value") >>]

DeepCVals == {Absent} \cup ArraysOf({MkObj("value" :> JScalar(<<8>>))}, MaxDeep)
DeepBVals == {Absent} \cup ArraysOf({MkObj("c" :> c) : c \in DeepCVals}, MaxDeep)
DeepAVals == {Absent} \cup ArraysOf({MkObj("b" :> b) : b \in DeepBVals}, MaxDeep)

DeepArrayDocs ==
    {MkObj(("header" :> MkObj("action" :> JScalar(<<0>>))) @@ ("a" :> a)) : a \in DeepAVals}

\* a.b next to a.c.d, in both orders: a shared prefix, different depths.
ShallowFirstConfig ==
    [fields |-> << Field(<<"a", ".", "b">>, "shallow"),
                   Field(<<"a", ".", "c", ".", "d">>, "deep") >>]
DeepFirstConfig ==
    [fields |-> << Field(<<"a", ".", "c", ".", "d">>, "deep"),
                   Field(<<"a", ".", "b">>, "shallow") >>]

SharedPrefixDocs ==
    {MkObj("a" :> a) :
        a \in {Absent, JNull}
              \cup {MkObj(("b" :> b) @@ ("c" :> c)) :
                       b \in {Absent, JScalar(<<1>>)},
                       c \in {Absent, JNull, JScalar(<<3>>)}
                             \cup {MkObj("d" :> d) : d \in {Absent, JScalar(<<2>>)}}}}

\* a[].b.c: the segment a is marked, the segment b is not.  A value that sits in
\* an array under b is <<9, j>>, the value of an object under b is <<1>>.
MarkedOuterConfig ==
    [fields |-> << Field(<<"a", "[]", ".", "b", ".", "c">>, "c") >>]

UnmarkedVals ==
    {Absent, MkObj("c" :> JScalar(<<1>>))}
    \cup {JArray([j \in 1..k |-> MkObj("c" :> JScalar(<<9, j>>))]) : k \in 0..MaxLen}

MarkedOuterDocs ==
    {MkObj("a" :> a) : a \in ArraysOf({MkObj("b" :> b) : b \in UnmarkedVals}, MaxLen)}

\* header.id, header.tags[].label, items[].name: a marked array under an object
\* branch, next to a marked top-level array.  Tag j has the label <<3, j>>.
TagsUnderObjectConfig ==
    [fields |-> << Field(<<"header", ".", "id">>, "hid"),
                   Field(<<"header", ".", "tags", "[]", ".", "label">>, "label"),
                   Field(<<"items", "[]", ".", "name">>, "name") >>]

TagsUnderObjectDocs ==
    {MkObj(("header" :> MkObj(("id" :> JScalar(<<0>>)) @@ ("tags" :> tags)))
           @@ ("items" :> items)) :
        tags \in {Absent}
                 \cup {JArray([j \in 1..k |-> MkObj("label" :> JScalar(<<3, j>>))]) :
                          k \in 0..MaxLen},
        items \in {Absent, JArray(<<>>), JArray(<< MkObj("name" :> JScalar(<<1>>)) >>)}}

\* id, tags[], header.name: two sources of a single segment, a scalar and an
\* array of primitives, next to a nested leaf.
TopLevelLeafConfig ==
    [fields |-> << Field(<<"id">>, "id"),
                   Field(<<"tags", "[]">>, "tag"),
                   Field(<<"header", ".", "name">>, "name") >>]

TopLevelLeafDocs ==
    {MkObj(("id" :> id) @@ ("tags" :> tags) @@ ("header" :> header)) :
        id \in {Absent, JNull, JScalar(<<1>>), MkObj("name" :> JScalar(<<2>>))},
        tags \in {Absent, JScalar(<<3>>)}
                 \cup ArraysOf({JScalar(<<4>>), MkObj("name" :> JScalar(<<5>>))}, MaxLen),
        header \in {Absent, MkObj("name" :> JScalar(<<0>>))}}

Perms(S) ==
    {p \in [1..Cardinality(S) -> S] : \A i, j \in 1..Cardinality(S) : p[i] = p[j] => i = j}

Init ==
    /\ \/ config = SingleArrayConfig /\ data \in SingleArrayDocs
       \/ config = ParallelArraysConfig /\ data \in ParallelArraysDocs
       \/ config = NestedArrayConfig /\ data \in NestedArrayDocs
       \/ config = DeepArrayConfig /\ data \in DeepArrayDocs
       \/ config \in {ShallowFirstConfig, DeepFirstConfig} /\ data \in SharedPrefixDocs
       \/ config = MarkedOuterConfig /\ data \in MarkedOuterDocs
       \/ config = TagsUnderObjectConfig /\ data \in TagsUnderObjectDocs
       \/ config = TopLevelLeafConfig /\ data \in TopLevelLeafDocs
    /\ key_order = <<>>
    /\ rows = <<>>
    /\ pc = "ready"
    /\ ValidatorIdle /\ EnforceIdle /\ BatchIdle /\ UnitsIdle

\* _traverse(data, [], {}, config), as _create_dataframes calls it for one document.
TraverseDocument ==
    /\ pc = "ready"
    /\ \E key_iter \in Perms(TopLevelKeys(config)) :
          /\ key_order' = key_iter
          /\ rows' = Traverse(data, <<>>, EmptyRow, config, key_iter)
    /\ pc' = "done"
    /\ UNCHANGED <<config, data, validatorVars, enforceVars, batchVars, resultVars, parseVars>>

Next == TraverseDocument

Spec == Init /\ [][Next]_vars

(***************************************************************************)
(* What the claims read from a state.                                      *)
(***************************************************************************)
Done == pc = "done"

\* The value of a document at a key, Absent when it has none.
At(d, key) == IF DictHas(d, key) THEN d.kv[key] ELSE Absent

\* The row an object gives for <<key, alias>> pairs: the aliases of the keys it holds.
Pick(d, pairs) ==
    [a \in {q[2] : q \in {r \in pairs : DictHas(d, r[1])}} |->
        d.kv[(CHOOSE q \in pairs : q[2] = a)[1]]]

\* The object holds at least one of the keys, so its traversal gives a row.
YieldsRow(d, pairs) == \E q \in pairs : DictHas(d, q[1])

RowExtends(row, sub) == \A a \in DOMAIN sub : a \in DOMAIN row /\ row[a] = sub[a]

Flatten(lists) ==
    LET acc[i \in 0..Len(lists)] ==
            IF i = 0 THEN <<>> ELSE acc[i - 1] \o lists[i]
    IN acc[Len(lists)]

SumOf(nums) ==
    LET acc[i \in 0..Len(nums)] ==
            IF i = 0 THEN 0 ELSE acc[i - 1] + nums[i]
    IN acc[Len(nums)]

HeaderPairs == {<<"id", "hid">>}
ItemPairs == {<<"name", "name">>, <<"qty", "qty">>}
HeaderRow == Pick(At(data, "header"), HeaderPairs)

(***************************************************************************)
(* C1.  One marked top-level array of length N, no other array.            *)
(***************************************************************************)
SingleArrayCase == Done /\ config = SingleArrayConfig /\ IsList(At(data, "items"))

SingleArrayRowsAsClaimed ==
    LET items == data.kv["items"].el
    IN /\ Len(rows) = Len(items)
       /\ \A i \in 1..Len(items) : rows[i] = Pick(items[i], ItemPairs) @@ HeaderRow

\* C1 as stated: a document with one marked top-level array of length N and no
\* other array gives exactly N rows, the i-th row holding the fields of the i-th
\* element next to the same non-array values.
C1_Original == SingleArrayCase => SingleArrayRowsAsClaimed

\* C1 (amended): the same, for N >= 1 and when every element of the array is an
\* object that holds at least one of the keys the config reads from it.
C1_SingleArrayRows ==
    (/\ SingleArrayCase
     /\ Len(data.kv["items"].el) >= 1
     /\ \A i \in 1..Len(data.kv["items"].el) : YieldsRow(data.kv["items"].el[i], ItemPairs))
        => SingleArrayRowsAsClaimed

C1_Witness ==
    /\ SingleArrayCase
    /\ Len(data.kv["items"].el) = 2
    /\ \A i \in 1..2 : YieldsRow(data.kv["items"].el[i], ItemPairs)
    /\ data.kv["items"].el[1] # data.kv["items"].el[2]
    /\ DOMAIN HeaderRow = {"hid"}
    /\ Len(rows) = 2

(***************************************************************************)
(* C2.  Two independent marked top-level arrays of lengths M and N.        *)
(***************************************************************************)
ProductPairs == {<<"sku", "psku">>}
CustomerPairs == {<<"cid", "cid">>}

ParallelCase == Done /\ config = ParallelArraysConfig

ParallelRowsAsClaimed ==
    LET products == data.kv["products"].el
        customers == data.kv["customers"].el
    IN /\ Len(rows) = Len(products) * Len(customers)
       /\ \A i \in 1..Len(products), j \in 1..Len(customers) :
             Cardinality({r \in 1..Len(rows) :
                 RowExtends(rows[r], Pick(products[i], ProductPairs)
                                     @@ Pick(customers[j], CustomerPairs))}) = 1

\* C2 as stated: two independent marked top-level arrays of lengths M and N give
\* exactly M*N rows, every pair of elements in exactly one row.
C2_Original == ParallelCase => ParallelRowsAsClaimed

\* C2 (amended): the same, for M >= 1 and N >= 1 and when every element of both
\* arrays is an object that holds at least one of the keys the config reads from it.
C2_CartesianRows ==
    (/\ ParallelCase
     /\ Len(data.kv["products"].el) >= 1
     /\ Len(data.kv["customers"].el) >= 1
     /\ \A i \in 1..Len(data.kv["products"].el) :
           YieldsRow(data.kv["products"].el[i], ProductPairs)
     /\ \A j \in 1..Len(data.kv["customers"].el) :
           YieldsRow(data.kv["customers"].el[j], CustomerPairs))
        => ParallelRowsAsClaimed

C2_Witness ==
    /\ ParallelCase
    /\ Len(data.kv["products"].el) = 2
    /\ Len(data.kv["customers"].el) = 2
    /\ \A i \in 1..2 : YieldsRow(data.kv["products"].el[i], ProductPairs)
    /\ \A j \in 1..2 : YieldsRow(data.kv["customers"].el[j], CustomerPairs)
    /\ Len(rows) = 4

(***************************************************************************)
(* C3.  A marked array inside a marked array: orders[].items[].            *)
(***************************************************************************)
OrderPairs == {<<"orderId", "oid">>}
TagPairs == {<<"tag", "tag">>}
NotePairs == {<<"text", "note">>}

\* The note of an order that has one.
NoteRow(order) ==
    IF DictHas(order, "notes") THEN Pick(order.kv["notes"].el[1], NotePairs) ELSE EmptyRow
SkuPairs == {<<"sku", "sku">>}

NestedCase ==
    /\ Done /\ config = NestedArrayConfig
    /\ \A i \in 1..Len(data.kv["orders"].el) : IsList(At(data.kv["orders"].el[i], "items"))

\* Row by row: item j of order i next to the fields of order i.
NestedExpected ==
    LET orders == data.kv["orders"].el
    IN Flatten([i \in 1..Len(orders) |->
                   [j \in 1..Len(orders[i].kv["items"].el) |->
                       Pick(orders[i].kv["items"].el[j], SkuPairs)
                       @@ NoteRow(orders[i])
                       @@ Pick(At(orders[i], "meta"), TagPairs)
                       @@ Pick(orders[i], OrderPairs) @@ HeaderRow]])

NestedRowsAsClaimed ==
    LET orders == data.kv["orders"].el
    IN /\ Len(rows) = SumOf([i \in 1..Len(orders) |-> Len(orders[i].kv["items"].el)])
       /\ rows = NestedExpected

\* C3 as stated: for orders[].items[] the number of rows is the sum of the lengths
\* of the inner arrays, each row holding the leaf values of its own outer element.
C3_Original == NestedCase => NestedRowsAsClaimed

\* C3 (amended): the same, when the inner arrays hold at least one element in
\* total and every inner element is an object holding a key the config reads.
C3_NestedRows ==
    (/\ NestedCase
     /\ \E i \in 1..Len(data.kv["orders"].el) :
           Len(data.kv["orders"].el[i].kv["items"].el) >= 1
     /\ \A i \in 1..Len(data.kv["orders"].el) :
           \A j \in 1..Len(data.kv["orders"].el[i].kv["items"].el) :
              YieldsRow(data.kv["orders"].el[i].kv["items"].el[j], SkuPairs))
        => NestedRowsAsClaimed

\* Order 1 with two items, order 2 with one: three rows.
C3_Witness ==
    /\ NestedCase
    /\ Len(data.kv["orders"].el) = 2
    /\ Len(data.kv["orders"].el[1].kv["items"].el) = 2
    /\ Len(data.kv["orders"].el[2].kv["items"].el) = 1
    /\ \A i \in 1..2 : DictHas(data.kv["orders"].el[i], "orderId")
    /\ \A i \in 1..2 : \A j \in 1..Len(data.kv["orders"].el[i].kv["items"].el) :
          YieldsRow(data.kv["orders"].el[i].kv["items"].el[j], SkuPairs)
    /\ Len(rows) = 3
    /\ rows[3] = ("sku" :> JScalar(<<2, 1>>)) @@ ("oid" :> JScalar(<<2>>))
                 @@ ("tag" :> JScalar(<<2, 0>>)) @@ ("note" :> JScalar(<<2, 0, 1>>))
                 @@ ("hid" :> JScalar(<<0>>))

(***************************************************************************)
(* C4.  The only marked top-level array is empty.                          *)
(***************************************************************************)
FieldsUnder(cfg, key) ==
    {i \in 1..Len(cfg.fields) : TopLevelKey(cfg.fields[i].source) = key}

\* key is the only top-level key that a field marks.
OnlyTopLevelArray(cfg, key) == {k \in TopLevelKeys(cfg) : IsArrayKey(cfg, k)} = {key}

\* No field of another top-level key has a marker in its source.
NoMarkerElsewhere(cfg, key) ==
    \A i \in 1..Len(cfg.fields) :
        ExtractPath(cfg.fields[i].source).is_in_array => i \in FieldsUnder(cfg, key)

Without(d, key) == JObject([x \in DOMAIN d.kv \ {key} |-> d.kv[x]])

AliasesNull(key) ==
    \A r \in 1..Len(rows) : \A i \in FieldsUnder(config, key) :
        config.fields[i].alias \notin DOMAIN rows[r]

\* C4 as stated: a document whose only marked top-level array is empty gives
\* exactly one row, in which the aliases of that array are null and the other
\* branches have the values they have when the array key is absent.
C4_Original ==
    Done => \A key \in TopLevelKeys(config) :
        (OnlyTopLevelArray(config, key) /\ At(data, key) = JArray(<<>>))
        => /\ Len(rows) = 1
           /\ AliasesNull(key)
           /\ rows = Traverse(Without(data, key), <<>>, EmptyRow, config, key_order)

\* C4 (amended): a document whose only marked top-level array is empty gives the
\* rows it gives when the array key is absent, at least one, with the aliases of
\* that array null; that is exactly one row when no other branch of the config
\* has a marked array.
C4_EmptyTopLevelArray ==
    Done => \A key \in TopLevelKeys(config) :
        (OnlyTopLevelArray(config, key) /\ At(data, key) = JArray(<<>>))
        => /\ AliasesNull(key)
           /\ rows = Traverse(Without(data, key), <<>>, EmptyRow, config, key_order)
           /\ Len(rows) >= 1
           /\ NoMarkerElsewhere(config, key) => Len(rows) = 1

C4_Witness ==
    /\ Done /\ config = SingleArrayConfig
    /\ At(data, "items") = JArray(<<>>)
    /\ rows = << ("hid" :> JScalar(<<0>>)) >>

(***************************************************************************)
(* C5.  An empty array met in a recursive call.                            *)
(***************************************************************************)
\* The recursive call on element i of the top-level array orders.
OrderCall(i) ==
    Traverse(data.kv["orders"].el[i], <<"orders">>, EmptyRow, config, key_order)

\* C5: the call on an order whose items array is empty returns no row, so no row
\* of the document holds that order's id or the tag of its sibling object
\* branch; the rows of the calls on the other orders are all in the result.
C5_EmptyInnerArrayKillsCall ==
    (Done /\ config = NestedArrayConfig) =>
        \A i \in 1..Len(data.kv["orders"].el) :
            LET order == data.kv["orders"].el[i] IN
            /\ At(order, "items") = JArray(<<>>)
               => /\ OrderCall(i) = <<>>
                  /\ \A r \in 1..Len(rows) :
                        /\ "oid" \in DOMAIN rows[r] => rows[r]["oid"] # JScalar(<<i>>)
                        /\ "tag" \in DOMAIN rows[r] => rows[r]["tag"] # JScalar(<<i, 0>>)
                        /\ "note" \in DOMAIN rows[r] => rows[r]["note"] # JScalar(<<i, 0, 1>>)
            /\ \A c \in 1..Len(OrderCall(i)) :
                  \E r \in 1..Len(rows) : rows[r] = OrderCall(i)[c] @@ HeaderRow

\* An order with an id, a tag and no item, next to an order with one item.
C5_Witness ==
    /\ Done /\ config = NestedArrayConfig
    /\ Len(data.kv["orders"].el) = 2
    /\ At(data.kv["orders"].el[1], "items") = JArray(<<>>)
    /\ DictHas(data.kv["orders"].el[1], "orderId")
    /\ DictHas(data.kv["orders"].el[1], "meta")
    /\ DictHas(data.kv["orders"].el[1], "notes")
    /\ rows = << ("sku" :> JScalar(<<2, 1>>)) @@ ("oid" :> JScalar(<<2>>))
                 @@ ("tag" :> JScalar(<<2, 0>>)) @@ ("note" :> JScalar(<<2, 0, 1>>))
                 @@ ("hid" :> JScalar(<<0>>)) >>

(***************************************************************************)
(* C6.  The root call returns at least one row.                            *)
(***************************************************************************)
\* C6: for every document and config the root call returns at least one row.
C6_AtLeastOneRow == Done => Len(rows) >= 1

\* a: [{b: [{c: []}]}], an empty array at the third level, gives one row.
C6_Witness ==
    /\ Done /\ config = DeepArrayConfig
    /\ At(data, "a") = JArray(<< MkObj("b" :> JArray(<< MkObj("c" :> JArray(<<>>)) >>)) >>)
    /\ rows = << ("action" :> JScalar(<<0>>)) >>

(***************************************************************************)
(* C7.  A top-level key that is missing, or null.                          *)
(***************************************************************************)
ConfigWithout(cfg, key) ==
    [fields |-> SelectSeq(cfg.fields, LAMBDA f : TopLevelKey(f.source) # key)]

OrderWithout(order, key) == SelectSeq(order, LAMBDA k : k # key)

\* C7: when a top-level key of the config is missing from the document, or null,
\* every alias under that key is null in every row, and the rows are those the
\* config without the fields of that key gives.
C7_MissingOrNullKey ==
    Done => \A key \in TopLevelKeys(config) :
        At(data, key) \in {Absent, JNull}
        => /\ AliasesNull(key)
           /\ rows = Traverse(data, <<>>, EmptyRow, ConfigWithout(config, key),
                              OrderWithout(key_order, key))

\* header: null next to two items.
C7_Witness ==
    /\ Done /\ config = SingleArrayConfig
    /\ At(data, "header") = JNull
    /\ IsList(At(data, "items"))
    /\ Len(rows) = 2
    /\ \A r \in 1..2 : "name" \in DOMAIN rows[r] /\ "hid" \notin DOMAIN rows[r]

C9_Original ==
    (Done /\ config = MarkedOuterConfig) =>
        \A r \in 1..Len(rows) : "c" \in DOMAIN rows[r] => rows[r]["c"] = JScalar(<<1>>)

(***************************************************************************)
(* C10.  The row order is fixed by the document and the config.            *)
(***************************************************************************)
\* C10 as stated: the row sequence is a function of the document and the config:
\* whatever the order in which the top-level key set is iterated, the rows come
\* out in the same order.
C10_Original ==
    Done => \A key_iter \in Perms(TopLevelKeys(config)) :
                rows = Traverse(data, <<>>, EmptyRow, config, key_iter)

(***************************************************************************)
(* C25.  Sources of a single segment.                                      *)
(***************************************************************************)
\* The fields whose source is one segment, marked or not.
SingleSegment(cfg) ==
    {i \in 1..Len(cfg.fields) : Len(ExtractPath(cfg.fields[i].source).path) = 1}

\* C25: a field whose source consists of a single segment is never populated:
\* no row holds its alias, whatever the document holds at that key.
C25_SingleSegmentNeverPopulated ==
    Done => \A i \in SingleSegment(config) : \A r \in 1..Len(rows) :
                config.fields[i].alias \notin DOMAIN rows[r]

\* A document with a scalar id and two tags: the one row holds the name only.
C25_Witness ==
    /\ Done /\ config = TopLevelLeafConfig
    /\ At(data, "id") = JScalar(<<1>>)
    /\ At(data, "tags") = JArray(<< JScalar(<<4>>), JScalar(<<4>>) >>)
    /\ rows = << ("name" :> JScalar(<<0>>)) >>

(***************************************************************************)
(* C26.  An array without rows met in a recursive call.                    *)
(***************************************************************************)
\* The items array of an order holds elements, none of which gives a row.
RowlessItems(order) ==
    /\ IsList(At(order, "items"))
    /\ Len(order.kv["items"].el) >= 1
    /\ \A j \in 1..Len(order.kv["items"].el) : ~YieldsRow(order.kv["items"].el[j], SkuPairs)

\* The leaf of an order next to the rows of its object branch and of its notes.
OwnRow(order) ==
    NoteRow(order) @@ Pick(At(order, "meta"), TagPairs) @@ Pick(order, OrderPairs)

\* The order with an empty items array in the place of the one it has.
WithNoItems(order) == JObject(("items" :> JArray(<<>>)) @@ order.kv)

\* C26: the call on an order whose items array is not empty but gives no row
\* returns the order's own leaf row combined with the rows of its other
\* branches, and that row is in the result; the call on the same order with an
\* empty items array returns no row.
C26_RowlessArrayKeepsCall ==
    (Done /\ config = NestedArrayConfig) =>
        \A i \in 1..Len(data.kv["orders"].el) :
            LET order == data.kv["orders"].el[i] IN
            (RowlessItems(order) /\ DictHas(order, "orderId"))
            => /\ OrderCall(i) = << OwnRow(order) >>
               /\ \E r \in 1..Len(rows) : rows[r] = OwnRow(order) @@ HeaderRow
               /\ Traverse(WithNoItems(order), <<"orders">>, EmptyRow, config, key_order)
                     = <<>>

\* One order with an id, a tag, a note and one item that has no sku.
C26_Witness ==
    /\ Done /\ config = NestedArrayConfig
    /\ Len(data.kv["orders"].el) = 1
    /\ RowlessItems(data.kv["orders"].el[1])
    /\ rows = << ("oid" :> JScalar(<<1>>)) @@ ("tag" :> JScalar(<<1, 0>>))
                 @@ ("note" :> JScalar(<<1, 0, 1>>)) @@ ("hid" :> JScalar(<<0>>)) >>

(***************************************************************************)
(* DataValidator (src/validation/validator.py): to_numeric and to_integer. *)
(*                                                                         *)
(* An element of a series is a null (None, NaN, pd.NA), a str given by its *)
(* characters, the decimal numeral of an integer next to the ends of the   *)
(* int64 range, or a number.  A number is a finite decimal                 *)
(* (-1)^neg * m / 10^e with no trailing zero, or an integer given by its   *)
(* distance from INT64_MAX = 2^63 - 1 or from INT64_MIN = -2^63.           *)
(***************************************************************************)
MaxChars == 4
MaxSeries == 2

NA == [t |-> "na"]
Str(chars) == [t |-> "str", s |-> chars]
Numeral(anchor, off) == [t |-> "numeral", anchor |-> anchor, off |-> off]
Big(anchor, off) == [t |-> "big", anchor |-> anchor, off |-> off]

RECURSIVE Dec(_, _, _)
Dec(neg, m, e) ==
    IF e > 0 /\ m % 10 = 0 THEN Dec(neg, m \div 10, e - 1)
    ELSE [t |-> "dec", neg |-> (neg /\ m # 0), m |-> m, e |-> e]

\* pd.isna(x)
IsNA(x) == x.t \in {"na", "none"}
CountNA(xs) == Cardinality({i \in 1..Len(xs) : IsNA(xs[i])})

DigitChars == <<"0", "1", "2", "3", "4", "5", "6", "7", "8", "9">>
Digits == {DigitChars[i] : i \in 1..10}
DigitVal(c) == (CHOOSE i \in 1..10 : DigitChars[i] = c) - 1

Count(chars, c) == Cardinality({i \in 1..Len(chars) : chars[i] = c})
Pow10(n) == IF n = 0 THEN 1 ELSE LET p[i \in 0..n] == IF i = 0 THEN 1 ELSE 10 * p[i - 1] IN p[n]

\* float(s) of Python and the parse of pd.to_numeric, on a str of digits, '.' and
\* '-': an optional leading minus, digits with at most one point, at least one
\* digit.  Any other str is not a number (ValueError, or NaN under errors='coerce').
ParseBody(neg, body) ==
    LET digits == SelectSeq(body, LAMBDA c : c \in Digits)
        val[i \in 0..Len(digits)] ==
            IF i = 0 THEN 0 ELSE 10 * val[i - 1] + DigitVal(digits[i])
    IN IF /\ \A i \in 1..Len(body) : body[i] \in Digits \cup {"."}
          /\ Count(body, ".") <= 1
          /\ Len(digits) >= 1
       THEN Dec(neg, val[Len(digits)],
                IF Count(body, ".") = 1
                THEN Len(body) - (CHOOSE i \in 1..Len(body) : body[i] = ".")
                ELSE 0)
       ELSE NA

ParseDecimal(chars) ==
    IF Len(chars) >= 1 /\ chars[1] = "-"
    THEN ParseBody(TRUE, Tail(chars))
    ELSE ParseBody(FALSE, chars)

\* Line 125: re.sub(r'[$...\s]', '', s), after str(x).strip().
CurrencyAndSpace == {"$", "€", "£", "¥", "₹", " "}
\* Line 128: the commas followed by three digits and then a comma, a point or the end.
RemoveThousands(chars) ==
    LET n == Len(chars)
        matched(i) == /\ chars[i] = ","
                      /\ i + 3 <= n
                      /\ \A k \in 1..3 : chars[i + k] \in Digits
                      /\ (i + 3 = n \/ chars[i + 4] \in {",", "."})
        acc[i \in 0..n] ==
            IF i = 0 THEN <<>>
            ELSE IF matched(i) THEN acc[i - 1] ELSE Append(acc[i - 1], chars[i])
    IN acc[n]

\* The str of the magnitude of the integer a numeral denotes.
Magnitude(x) ==
    IF x.anchor = "min" THEN Numeral("max", 1 - x.off) ELSE x

\* The decimal digits of a natural number, padded with zeros to width digits.
RECURSIVE DigitsOf(_, _)
DigitsOf(n, width) ==
    IF n < 10 /\ width <= 1 THEN << DigitChars[n + 1] >>
    ELSE Append(DigitsOf(n \div 10, width - 1), DigitChars[(n % 10) + 1])

\* str(x) of a number that sits in an object series: "5", "-5.5".  (An integral
\* number is taken to be an int; the ".0" of a float does not outlive the parse.)
StrOfDec(x) ==
    (IF x.neg THEN << "-" >> ELSE <<>>)
    \o DigitsOf(x.m \div Pow10(x.e), 1)
    \o (IF x.e > 0 THEN << "." >> \o DigitsOf(x.m % Pow10(x.e), x.e) ELSE <<>>)

\* Lines 131-136: a trailing % divides the number before it by 100.
PercentValue(f) ==
    [value |-> (IF IsNA(f) THEN NA ELSE Dec(f.neg, f.m, f.e + 2)), warnings |-> <<>>]

\* Lines 143-155: the tests on the filtered str.
FilteredValue(x, cleaned_str) ==
    IF Count(cleaned_str, ".") > 1 \/ Count(cleaned_str, "-") > 1
    THEN [value |-> NA, warnings |-> << [msg |-> "Invalid numeric format", x |-> x] >>]
    ELSE IF Count(cleaned_str, "-") > 0 /\ cleaned_str[1] # "-"
    THEN [value |-> NA, warnings |-> << [msg |-> "Invalid negative format", x |-> x] >>]
    ELSE [value |-> (IF cleaned_str = <<>> THEN NA ELSE Str(cleaned_str)),
          warnings |-> <<>>]

\* Lines 131-155 on the str s left by lines 122-128.
CleanString(x, s, allow_neg) ==
    IF s # <<>> /\ s[Len(s)] = "%"
    THEN PercentValue(ParseDecimal(SubSeq(s, 1, Len(s) - 1)))
    ELSE FilteredValue(x, SelectSeq(s, LAMBDA c : c \in Digits \cup {"."}
                                                   \/ (allow_neg /\ c = "-")))

\* Lines 118-155: the value clean_value returns and the warnings it adds.
clean_value(x, allow_neg) ==
    IF IsNA(x) THEN [value |-> x, warnings |-> <<>>]
    ELSE IF x.t = "numeral"
    THEN [value |-> (IF allow_neg THEN x ELSE Magnitude(x)), warnings |-> <<>>]
    ELSE CleanString(x,
                     RemoveThousands(SelectSeq(IF x.t = "dec" THEN StrOfDec(x) ELSE x.s,
                                               LAMBDA c : c \notin CurrencyAndSpace)),
                     allow_neg)

\* The nearest multiple of q to x >= 0, a tie going to the even multiple.
RoundTo(x, q) ==
    LET k == x \div q
        r == x % q
    IN IF 2 * r < q THEN k * q
       ELSE IF 2 * r > q THEN (k + 1) * q
       ELSE IF k % 2 = 0 THEN k * q ELSE (k + 1) * q

\* float(x): the nearest double.  Doubles are 1024 apart below 2^63 in magnitude
\* and 2048 apart from 2^63 on; the decimals of the model are kept as they are.
ToDouble(x) ==
    IF x.t # "big" THEN x
    ELSE IF x.anchor = "max"
    THEN LET d == x.off - 1
         IN Big("max", 1 + (IF d >= 0 THEN RoundTo(d, 2048) ELSE 0 - RoundTo(0 - d, 1024)))
    ELSE LET d == x.off
         IN Big("min", IF d <= 0 THEN 0 - RoundTo(0 - d, 2048) ELSE RoundTo(d, 1024))

\* What pd.to_numeric(cleaned, errors='coerce') makes of one cleaned element.
ParseCleaned(c) ==
    IF IsNA(c) THEN NA
    ELSE IF c.t = "dec" THEN c
    ELSE IF c.t = "numeral" THEN Big(c.anchor, c.off)
    ELSE ParseDecimal(c.s)

\* The result of pd.to_numeric is float64 unless every element is an integer
\* literal that fits int64, or every one fits uint64.
FloatColumn(cleaned, parsed) ==
    LET I == 1..Len(cleaned)
    IN \/ \E i \in I : IsNA(parsed[i])
       \/ \E i \in I : cleaned[i].t = "dec"
       \/ \E i \in I : cleaned[i].t = "str" /\ Count(cleaned[i].s, ".") > 0
       \/ \E i \in I : parsed[i].t = "big" /\ parsed[i].anchor = "min" /\ parsed[i].off < 0
       \/ /\ \E i \in I : parsed[i].t = "big" /\ parsed[i].anchor = "max" /\ parsed[i].off > 0
          /\ \E i \in I : \/ parsed[i].t = "big" /\ parsed[i].anchor = "min"
                          \/ parsed[i].t = "dec" /\ parsed[i].neg

IsFloatColumn(cleaned) ==
    FloatColumn(cleaned, [i \in 1..Len(cleaned) |-> ParseCleaned(cleaned[i])])

\* pd.api.types.is_numeric_dtype(series): a series of numbers, NaN included.
IsNumericDtype(xs) ==
    /\ \A i \in 1..Len(xs) : xs[i].t \in {"dec", "big", "na"}
    /\ \E i \in 1..Len(xs) : xs[i].t \in {"dec", "big"}

FreshResult == [success |-> TRUE, warnings |-> <<>>, errors |-> <<>>]

\* Line 157: series.apply(clean_value), with the warnings it collects.
AppendCleaned(acc, c) ==
    [cleaned |-> Append(acc.cleaned, c.value), warnings |-> acc.warnings \o c.warnings]

ApplyClean(xs, allow_neg) ==
    LET applied[i \in 0..Len(xs)] ==
            IF i = 0 THEN [cleaned |-> <<>>, warnings |-> <<>>]
            ELSE AppendCleaned(applied[i - 1], clean_value(xs[i], allow_neg))
    IN applied[Len(xs)]

\* Line 158: pd.to_numeric(cleaned, errors='coerce')
ConvertCleaned(cleaned, float64) ==
    LET converted[i \in 0..Len(cleaned)] ==
            IF i = 0 THEN <<>>
            ELSE Append(converted[i - 1],
                        IF float64 THEN ToDouble(ParseCleaned(cleaned[i]))
                        ELSE ParseCleaned(cleaned[i]))
    IN converted[Len(cleaned)]

\* Lines 158-167: the result, with the warning for the values that became NaN.
NumericResult(xs, warnings, converted) ==
    [result |-> converted,
     last_result |->
         [FreshResult EXCEPT !.warnings =
             warnings
             \o (IF CountNA(converted) > CountNA(xs)
                 THEN << [msg |-> "values could not be converted to numeric",
                          count |-> CountNA(converted) - CountNA(xs)] >>
                 ELSE <<>>)]]

NumericFrom(xs, applied) ==
    NumericResult(xs, applied.warnings,
                  ConvertCleaned(applied.cleaned, IsFloatColumn(applied.cleaned)))

\* Lines 110-167: the returned series and the _last_result left behind.
to_numeric(xs, allow_neg) ==
    IF IsNumericDtype(xs) THEN [result |-> xs, last_result |-> FreshResult]
    ELSE NumericFrom(xs, ApplyClean(xs, allow_neg))

\* Lines 189-211 on the double float(x) of x.
SafeIntOf(x, float_val) ==
    IF float_val.t = "big" /\ float_val.anchor = "max" /\ float_val.off > 0
    THEN [value |-> NA, errors |-> << [msg |-> "Integer overflow", x |-> x] >>]
    ELSE IF float_val.t = "big" /\ float_val.anchor = "min" /\ float_val.off < 0
    THEN [value |-> NA, errors |-> << [msg |-> "Integer underflow", x |-> x] >>]
    ELSE IF float_val.t = "big" THEN [value |-> float_val, errors |-> <<>>]
    ELSE [value |-> Dec(float_val.neg, float_val.m \div Pow10(float_val.e), 0),
          errors |-> <<>>]

\* Lines 189-211: the value safe_int returns and the errors it adds.
safe_int(x) ==
    IF IsNA(x) THEN [value |-> NA, errors |-> <<>>] ELSE SafeIntOf(x, ToDouble(x))

\* Line 216: ((numeric_clean % 1) != 0).any(); NaN % 1 is NaN, and NaN != 0 holds.
HasDecimals(numeric) ==
    \E i \in 1..Len(numeric) :
        \/ IsNA(numeric[i])
        \/ numeric[i].t = "dec" /\ numeric[i].e > 0

\* Lines 214-220, with warn_truncation at its default.
Truncation(numeric) ==
    IF HasDecimals(numeric)
    THEN << [msg |-> "Decimal values will be truncated to integers"] >>
    ELSE <<>>

\* Line 222: numeric.apply(safe_int), with the errors it collects.
AppendInt(acc, c) ==
    [converted |-> Append(acc.converted, c.value), errors |-> acc.errors \o c.errors]

ApplySafeInt(numeric) ==
    LET applied[i \in 0..Len(numeric)] ==
            IF i = 0 THEN [converted |-> <<>>, errors |-> <<>>]
            ELSE AppendInt(applied[i - 1], safe_int(numeric[i]))
    IN applied[Len(numeric)]

IntegerResult(warnings, applied) ==
    [result |-> applied.converted,
     last_result |-> [success |-> applied.errors = <<>>,
                      warnings |-> warnings,
                      errors |-> applied.errors]]

IntegerFrom(num) ==
    IntegerResult(num.last_result.warnings \o Truncation(num.result),
                  ApplySafeInt(num.result))

\* Lines 184-223.
to_integer(xs) == IntegerFrom(to_numeric(xs, TRUE))

(***************************************************************************)
(* The calls of the validator that are explored.                           *)
(***************************************************************************)
CharStrings == UNION {[1..n -> {"0", "5", ".", "-", "%", "$", "a"}] : n \in 0..MaxChars}

\* Elements of a column on its way to Int64.
IntegerValues ==
    {NA, Str(<<"a">>), Str(<<"5">>), Str(<<"5", ".", "5">>), Str(<<"-", "5", ".", "5">>),
     Numeral("max", 0), Numeral("max", 1), Numeral("min", 0), Numeral("min", -1),
     Numeral("min", -3000)}

\* Elements of a float64 series.
FloatValues == {NA, Dec(FALSE, 5, 0), Dec(FALSE, 55, 1), Dec(TRUE, 55, 1)}

\* Elements of an int64 series: 5, -5 and the two ends of the int64 range.
Int64Values == {Dec(FALSE, 5, 0), Dec(TRUE, 5, 0), Big("max", 0), Big("min", 0)}

InitValidator ==
    /\ \/ \E chars \in CharStrings : series = << Str(chars) >>
       \/ series \in UNION {[1..n -> IntegerValues] : n \in 0..MaxSeries}
       \/ series \in UNION {[1..n -> Int64Values] : n \in 1..MaxSeries}
       \/ series \in {xs \in UNION {[1..n -> FloatValues] : n \in 1..MaxSeries} :
                         IsNumericDtype(xs)}
    /\ allow_negative = TRUE /\ result = None /\ last_result = None /\ vpc = "ready"
    /\ ops = 0
    /\ TraverseIdle /\ EnforceIdle /\ BatchIdle /\ UnitsIdle

ToNumeric ==
    /\ vpc = "ready"
    /\ \E allow_neg \in BOOLEAN :
          /\ allow_negative' = allow_neg
          /\ result' = to_numeric(series, allow_neg).result
          /\ last_result' = to_numeric(series, allow_neg).last_result
    /\ vpc' = "to_numeric"
    /\ ops' = ops + 1
    /\ UNCHANGED <<series, traverseVars, enforceVars, batchVars, resultVars, parseVars>>

ToInteger ==
    /\ vpc = "ready"
    /\ result' = to_integer(series).result
    /\ last_result' = to_integer(series).last_result
    /\ vpc' = "to_integer"
    /\ ops' = ops + 1
    /\ UNCHANGED <<series, allow_negative, traverseVars, enforceVars, batchVars, resultVars,
                   parseVars>>

NextValidator == ToNumeric \/ ToInteger

SpecValidator == InitValidator /\ [][NextValidator]_vars

(***************************************************************************)
(* C18.  Integer coercion outside the int64 range.                         *)
(***************************************************************************)
\* The integer an element denotes is above INT64_MAX or below INT64_MIN.
OutOfInt64(x) ==
    /\ x.t = "numeral"
    /\ \/ x.anchor = "max" /\ x.off > 0
       \/ x.anchor = "min" /\ x.off < 0

\* C18 as stated: to_integer returns a series as long as its input in which every
\* value above the int64 maximum or below the minimum is null, and for such a
\* value an error is recorded, so that success is false.
C18_Original ==
    vpc = "to_integer" =>
        /\ Len(result) = Len(series)
        /\ \A i \in 1..Len(series) :
              OutOfInt64(series[i])
              => /\ IsNA(result[i])
                 /\ last_result.errors # <<>>
                 /\ last_result.success = FALSE

(***************************************************************************)
(* C19.  The truncation warning of integer coercion.                       *)
(***************************************************************************)
TruncationWarnings ==
    Cardinality({i \in 1..Len(last_result.warnings) :
                    last_result.warnings[i].msg = "Decimal values will be truncated to integers"})

\* The numbers of the column that are not integral.
NonIntegral ==
    {i \in 1..Len(series) :
        LET v == to_numeric(series, TRUE).result[i] IN v.t = "dec" /\ v.e > 0}

\* C19 as stated: to_integer emits the truncation warning once when at least one
\* value of the column is not integral and not at all otherwise (nulls and values
\* that cannot be converted do not count), and a non-integral value is truncated
\* toward zero.
C19_Original ==
    vpc = "to_integer" =>
        /\ TruncationWarnings = (IF NonIntegral # {} THEN 1 ELSE 0)
        /\ \A i \in NonIntegral :
              LET v == to_numeric(series, TRUE).result[i]
              IN result[i] = Dec(v.neg, v.m \div Pow10(v.e), 0)

(***************************************************************************)
(* C20.  Numeric coercion of malformed values and of suppressed signs.     *)
(***************************************************************************)
\* The characters of a value that can belong to a number.
NumericChars(chars) == SelectSeq(chars, LAMBDA c : c \in Digits \cup {".", "-"})

\* C20 as stated, for a series of one str.  A value whose numeric characters hold
\* more than one decimal point, or, when negatives are allowed, more than one
\* minus sign or a minus sign that is not the first of them, becomes null with a
\* warning; when negatives are not allowed, a leading minus sign is stripped: the
\* value converts as the value without it does, to a number that is not negative.
C20_Original ==
    (vpc = "to_numeric" /\ Len(series) = 1 /\ series[1].t = "str") =>
        LET chars == series[1].s
            kept == NumericChars(chars)
        IN /\ (\/ Count(kept, ".") > 1
               \/ allow_negative /\ Count(kept, "-") > 1
               \/ allow_negative /\ Count(kept, "-") = 1 /\ kept[1] # "-")
              => IsNA(result[1]) /\ last_result.warnings # <<>>
           /\ (~allow_negative /\ chars # <<>> /\ chars[1] = "-")
              => /\ result = to_numeric(<< Str(Tail(chars)) >>, FALSE).result
                 /\ IsNA(result[1]) \/ ~result[1].neg

(***************************************************************************)
(* C21, C30.  Coercion of a typed column; suppressed signs.                *)
(***************************************************************************)
\* An integer of the int64 range.
InInt64(x) ==
    \/ x.t = "dec" /\ x.e = 0
    \/ x.t = "big" /\ x.anchor = "max" /\ x.off <= 0
    \/ x.t = "big" /\ x.anchor = "min" /\ x.off >= 0

\* C21 as stated, for numeric and integer coercion: to_numeric returns a series
\* of numbers as it is, and to_integer returns a series of int64 integers as it
\* is, the two ends of the int64 range included: no value changes, none is null.
C21_Original ==
    /\ (vpc = "to_numeric" /\ IsNumericDtype(series)) => result = series
    /\ (vpc = "to_integer" /\ series # <<>> /\ \A i \in 1..Len(series) : InInt64(series[i]))
          => result = series

\* A number below zero.
Negative(x) ==
    \/ x.t = "dec" /\ x.neg
    \/ x.t = "big" /\ x.anchor = "min"

\* C30 as stated: what to_numeric returns when negatives are not allowed holds
\* only nulls and numbers that are not below zero.
C30_Original ==
    (vpc = "to_numeric" /\ ~allow_negative) =>
        \A i \in 1..Len(result) : IsNA(result[i]) \/ ~Negative(result[i])

(***************************************************************************)
(* JsonProcessor._enforce_datatypes and _coerce_column, for the declared   *)
(* types integer, float and string.                                        *)
(*                                                                         *)
(* A DataFrame is the sequence of its column names and, for each name, the *)
(* column: its dtype and its values, one per row.  A field of the config   *)
(* is a record with the keys it has: alias, and type and coerce if given.  *)
(***************************************************************************)
MaxRows == 2

Column(dtype, values) == [dtype |-> dtype, values |-> values]

\* A resolution that takes the setting of the field as a wish to coerce only.
ShouldCoerceIfTrue(field, default) ==
    ("coerce" \in DOMAIN field /\ field.coerce) \/ default

\* Line 284: field.get('coerce', self.default_coerce)
ShouldCoerce(field, default) ==
    IF "coerce" \in DOMAIN field THEN field.coerce ELSE default

\* Line 291: replace({'nan': None, 'NaN': None, 'NAN': None})
ReplaceNan(values) ==
    [i \in 1..Len(values) |->
        IF /\ values[i].t = "str"
           /\ values[i].s \in {<<"n", "a", "n">>, <<"N", "a", "N">>, <<"N", "A", "N">>}
        THEN NA ELSE values[i]]

\* An optional minus sign and digits.
IsIntLiteral(chars) ==
    LET v == ParseDecimal(chars) IN ~IsNA(v) /\ Count(chars, ".") = 0

\* astype('string[pyarrow]'): a str stays, a null stays, a number becomes its text.
AsString(values) ==
    Column("string",
           [i \in 1..Len(values) |->
               IF IsNA(values[i]) THEN NA
               ELSE IF values[i].t = "str" THEN values[i]
               ELSE Str(StrOfDec(values[i]))])

\* Lines 298-310, the conversion without coercion: the columns it can return,
\* or that it raised.  astype('Int64') and astype('Float64') raise on
\* a str that is not a numeral and (Int64) on a number that is not integral;
\* whether they parse a column of numerals given as str depends on the pandas
\* version, so both outcomes are kept.
StrictParsed(values, data_type, strs, parsed) ==
    IF data_type = "integer"
    THEN IF \/ \E i \in strs : ~IsIntLiteral(values[i].s)
            \/ \E i \in 1..Len(values) : values[i].t = "dec" /\ values[i].e > 0
         THEN {[raised |-> TRUE]}
         ELSE IF strs # {}
         THEN {[raised |-> TRUE], [raised |-> FALSE, column |-> Column("Int64", parsed)]}
         ELSE {[raised |-> FALSE, column |-> Column("Int64", parsed)]}
    ELSE IF data_type = "float"
    THEN IF \E i \in strs : IsNA(parsed[i])
         THEN {[raised |-> TRUE]}
         ELSE IF strs # {}
         THEN {[raised |-> TRUE], [raised |-> FALSE, column |-> Column("Float64", parsed)]}
         ELSE {[raised |-> FALSE, column |-> Column("Float64", parsed)]}
    ELSE {[raised |-> FALSE, column |-> AsString(values)]}

StrictOutcomes(values, data_type) ==
    StrictParsed(values, data_type,
                 {i \in 1..Len(values) : values[i].t = "str"},
                 [i \in 1..Len(values) |->
                     IF values[i].t = "str" THEN ParseDecimal(values[i].s) ELSE values[i]])

\* Lines 317-366, _coerce_column: the conversion by the DataValidator.
CoerceColumn(values, data_type) ==
    IF data_type = "integer" THEN Column("Int64", to_integer(values).result)
    ELSE IF data_type = "float" THEN Column("Float64", to_numeric(values, TRUE).result)
    ELSE AsString(values)

\* Lines 293-313: the conversion in the resolved mode; the except logs the
\* error and leaves the column as the replace of line 291 left it.
Caught(dtype, replaced, data_type, should_coerce) ==
    {IF o.raised THEN Column(dtype, replaced) ELSE o.column :
        o \in IF should_coerce
              THEN {[raised |-> FALSE, column |-> CoerceColumn(replaced, data_type)]}
              ELSE StrictOutcomes(replaced, data_type)}

\* Lines 289-313 for one column.
ConvertOutcomes(column, data_type, should_coerce) ==
    Caught(column.dtype, ReplaceNan(column.values), data_type, should_coerce)

\* Line 282: field['type'].lower()
LowerType(type) ==
    CASE type = "Integer" -> "integer"
      [] type = "FLOAT" -> "float"
      [] OTHER -> type

\* Lines 277-313 for one field.
EnforceField(frame, field, default) ==
    IF "type" \notin DOMAIN field THEN {frame}
    ELSE IF \A c \in 1..Len(frame.columns) : frame.columns[c] # field.alias THEN {frame}
    ELSE {[frame EXCEPT !.col[field.alias] = column] :
             column \in ConvertOutcomes(frame.col[field.alias], LowerType(field.type),
                                        ShouldCoerce(field, default))}

\* Lines 258-315: the frames _enforce_datatypes can return.
EnforceDatatypes(frame, field_list, default) ==
    LET acc[i \in 0..Len(field_list)] ==
            IF i = 0 THEN {frame}
            ELSE UNION {EnforceField(f, field_list[i], default) : f \in acc[i - 1]}
    IN acc[Len(field_list)]

(***************************************************************************)
(* The calls of _enforce_datatypes that are explored: a price declared     *)
(* float and a quantity declared integer, each with or without a coerce    *)
(* setting of its own.                                                     *)
(***************************************************************************)
TypedField(alias, type, setting) ==
    IF setting = None THEN [alias |-> alias, type |-> type]
    ELSE [alias |-> alias, type |-> type, coerce |-> setting.coerce]

PriceValues == {Str(<<"$", "5">>), Str(<<"a">>), Dec(FALSE, 55, 1)}
QuantityValues == {Str(<<"5">>), Str(<<"a">>), Dec(FALSE, 5, 0)}

InitEnforce ==
    /\ default_coerce \in BOOLEAN
    /\ \E p, q \in {None, [coerce |-> TRUE], [coerce |-> FALSE]}, qtype \in {"integer", "Integer"} :
          fields = << TypedField("price", "float", p), TypedField("quantity", qtype, q) >>
    /\ \E n \in 1..MaxRows :
          \E prices \in [1..n -> PriceValues], quantities \in [1..n -> QuantityValues] :
             df = [columns |-> <<"price", "quantity">>,
                   col |-> ("price" :> Column("object", prices))
                           @@ ("quantity" :> Column("object", quantities))]
    /\ epc = "ready"
    /\ TraverseIdle /\ ValidatorIdle /\ BatchIdle /\ UnitsIdle

EnforceTypes ==
    /\ epc = "ready"
    /\ df' \in EnforceDatatypes(df, fields, default_coerce)
    /\ epc' = "done"
    /\ UNCHANGED <<default_coerce, fields, traverseVars, validatorVars, batchVars, resultVars,
                   parseVars>>

NextEnforce == EnforceTypes

SpecEnforce == InitEnforce /\ [][NextEnforce]_vars

(***************************************************************************)
(* Claims about the typing of columns.                                     *)
(***************************************************************************)
FieldAt(alias) == CHOOSE i \in 1..Len(fields) : fields[i].alias = alias

OwnCoerce(alias) == "coerce" \in DOMAIN fields[FieldAt(alias)]

\* The columns the lenient, respectively the strict, conversion of a column to
\* the declared type of its field can leave.
LenientResults(column, alias) ==
    {CoerceColumn(ReplaceNan(column.values), LowerType(fields[FieldAt(alias)].type))}

StrictResults(column, alias) ==
    {IF o.raised THEN Column(column.dtype, ReplaceNan(column.values)) ELSE o.column :
        o \in StrictOutcomes(ReplaceNan(column.values), LowerType(fields[FieldAt(alias)].type))}

\* C16: every column is converted in the mode its field sets for itself, and in
\* the default mode of the processor when the field sets none: leniently when
\* that mode is coerce, strictly when it is not, whatever the other fields set.
C16_FieldSettingOverridesDefault ==
    [][EnforceTypes =>
        \A alias \in {"price", "quantity"} :
            LET lenient == IF OwnCoerce(alias) THEN fields[FieldAt(alias)].coerce
                           ELSE default_coerce
            IN df'.col[alias] \in (IF lenient THEN LenientResults(df.col[alias], alias)
                                   ELSE StrictResults(df.col[alias], alias))]_vars

\* A strict default, a price that sets coerce=true and is coerced ("$5" became
\* 5), and a quantity without a setting that the strict conversion left as it was.
C16_Witness ==
    /\ epc = "done"
    /\ ~default_coerce
    /\ OwnCoerce("price") /\ fields[FieldAt("price")].coerce
    /\ ~OwnCoerce("quantity")
    /\ df.col["price"] = Column("Float64", << Dec(FALSE, 5, 0) >>)
    /\ df.col["quantity"] = Column("object", << Str(<<"a">>) >>)

MaxBatch == 2

Text(chars) == JScalar(Str(chars))
Number(n) == JScalar(Dec(FALSE, n, 0))

\* Line 217: str(key) of a config key; the text of a number, a text as it is.
PyStr(key) == IF key.v.t = "dec" THEN Text(StrOfDec(key.v)) ELSE key

\* x.get(k): the value, None when a dict lacks the key, AttributeError when x
\* is not a dict.
AttributeError == [t |-> "raise", error |-> "AttributeError"]
Get(x, k) ==
    IF x.t = "raise" THEN x
    ELSE IF ~IsDict(x) THEN AttributeError
    ELSE IF k \in DOMAIN x.kv THEN x.kv[k] ELSE JNull

\* Lines 192-194: message.get(path[0]).get(path[1])...
ResolveSplit(message, path) ==
    LET acc[i \in 1..Len(path)] ==
            IF i = 1 THEN Get(message, path[1]) ELSE Get(acc[i - 1], path[i])
    IN acc[Len(path)]

BucketIndex(buckets, key) ==
    IF \E i \in 1..Len(buckets) : buckets[i].key = key
    THEN CHOOSE i \in 1..Len(buckets) : buckets[i].key = key
    ELSE 0

\* A bucket that takes a new message in front of the ones it holds.
BucketedInFront(buckets, split_val, message) ==
    IF split_val.t \notin {"scalar", "null"} THEN buckets
    ELSE IF BucketIndex(buckets, split_val) # 0
    THEN [buckets EXCEPT ![BucketIndex(buckets, split_val)].messages = << message >> \o @]
    ELSE Append(buckets, [key |-> split_val, messages |-> << message >>])

\* Lines 197-204: the message goes to the bucket of its value.  A dict or a list
\* is not hashable: split_val in split_lists raises TypeError.
Bucketed(buckets, split_val, message) ==
    IF split_val.t \notin {"scalar", "null"} THEN buckets
    ELSE IF BucketIndex(buckets, split_val) # 0
    THEN [buckets EXCEPT ![BucketIndex(buckets, split_val)].messages = Append(@, message)]
    ELSE Append(buckets, [key |-> split_val, messages |-> << message >>])

\* Lines 189-204 for one message: both excepts log and go on.
SplitStep(buckets, message, path) ==
    Bucketed(buckets, ResolveSplit(message, path), message)

\* Lines 186-205.
split_messages(raw, path) ==
    LET acc[i \in 0..Len(raw)] ==
            IF i = 0 THEN <<>> ELSE SplitStep(acc[i - 1], raw[i], path)
    IN acc[Len(raw)]

\* Line 214: not self.filepath
Truthy(path) == path # None /\ path.s # <<>>

\* Rows kept once: a row equal to one already collected is skipped.
ConcatRowsDedup(messages, cfg, key_iter) ==
    LET acc[i \in 0..Len(messages)] ==
            IF i = 0 THEN <<>>
            ELSE acc[i - 1]
                 \o SelectSeq(Traverse(messages[i], <<>>, EmptyRow, cfg, key_iter),
                              LAMBDA r : \A j \in 1..Len(acc[i - 1]) : acc[i - 1][j] # r)
    IN acc[Len(messages)]

\* Lines 222-226: the rows of the messages of a bucket, one message after the other.
ConcatRows(messages, cfg, key_iter) ==
    LET acc[i \in 0..Len(messages)] ==
            IF i = 0 THEN <<>>
            ELSE acc[i - 1] \o Traverse(messages[i], <<>>, EmptyRow, cfg, key_iter)
    IN acc[Len(messages)]

Aliases(cfg) == [i \in 1..Len(cfg.fields) |-> cfg.fields[i].alias]

\* Lines 229-232: the cell of a row under a column.  A key the row lacks is
\* NaN, None is null, and replace('', np.nan) makes the empty text NaN.
CellOf(row, alias) ==
    IF alias \notin DOMAIN row THEN NA
    ELSE IF row[alias] = JNull \/ row[alias] = Text(<<>>) THEN NA
    ELSE IF row[alias].t = "scalar" THEN row[alias].v
    ELSE row[alias]

\* Lines 229-232: pd.DataFrame(rows), a column for every key some row holds.
DataFrameOf(row_list, cfg) ==
    LET present == SelectSeq(Aliases(cfg),
                             LAMBDA a : \E i \in 1..Len(row_list) : a \in DOMAIN row_list[i])
    IN [columns |-> present,
        col |-> [a \in {present[i] : i \in 1..Len(present)} |->
                    Column("object", [i \in 1..Len(row_list) |-> CellOf(row_list[i], a)])]]

NumRows(frame) == Len(frame.col[frame.columns[1]].values)

\* A column holding the value in its first row only.
WithColumnFirstRow(frame, name, dtype, value) ==
    [columns |-> Append(frame.columns, name),
     col |-> (name :> Column(dtype, [i \in 1..NumRows(frame) |->
                                        IF i = 1 THEN value ELSE NA])) @@ frame.col]

\* A column holding one value in every row.
WithColumn(frame, name, dtype, value) ==
    [columns |-> Append(frame.columns, name),
     col |-> (name :> Column(dtype, [i \in 1..NumRows(frame) |-> value])) @@ frame.col]

\* Line 235: pd.to_datetime(self.last_modified).tz_localize(None): the wall
\* clock time of the instant as written, its zone dropped; None stays None.
NaiveTimestamp(instant) ==
    IF instant = None THEN None ELSE [t |-> "datetime64[us]", wall |-> instant.wall]

\* Lines 238-241: a NaN column for every alias no row populated.
AddMissingColumns(frame, cfg) ==
    LET acc[i \in 0..Len(cfg.fields)] ==
            IF i = 0 THEN frame
            ELSE IF cfg.fields[i].alias \in DOMAIN acc[i - 1].col THEN acc[i - 1]
            ELSE WithColumn(acc[i - 1], cfg.fields[i].alias, "float64", NA)
    IN acc[Len(cfg.fields)]

\* An order that puts the metadata columns first.
OrderedColumnsMetadataFirst(cfg) ==
    << "s3_source_path", "s3_last_modified_utc" >> \o Aliases(cfg)

\* Lines 247-249.
OrderedColumns(cfg) ==
    Aliases(cfg) \o << "s3_source_path", "s3_last_modified_utc" >>

\* Line 251: df[ordered_columns]
Reorder(frame, ordered) ==
    [columns |-> ordered, col |-> [a \in {ordered[i] : i \in 1..Len(ordered)} |-> frame.col[a]]]

\* Lines 228-253 for the rows of one table: the frames that can result, or the
\* AttributeError of None.tz_localize when there is no last-modified instant.
BuildTable(row_list, cfg, path, instant, default) ==
    IF NaiveTimestamp(instant) = None THEN {AttributeError}
    ELSE {Reorder(f, OrderedColumns(cfg)) :
             f \in EnforceDatatypes(
                       AddMissingColumns(
                           WithColumn(WithColumn(DataFrameOf(row_list, cfg),
                                                 "s3_source_path", "object", path),
                                      "s3_last_modified_utc", "datetime64[us]",
                                      NaiveTimestamp(instant)),
                           cfg),
                       cfg.fields, default)}

\* Lines 228-253: the table of an entry added to the returned dict, when the
\* bucket gave rows.
AddTable(outcome, key, row_list, cfg, path, instant, default) ==
    IF row_list = <<>> THEN {outcome}
    ELSE {IF f = AttributeError THEN f
          ELSE [t |-> "tables", tables |-> Append(outcome.tables, [key |-> key, table |-> f])] :
             f \in BuildTable(row_list, cfg, path, instant, default)}

\* Lines 217-226 on the bucket found under str(key), if any.
FromBucket(outcome, entry, buckets, at, key_iter, path, instant, default) ==
    IF at = 0 THEN {outcome}
    ELSE AddTable(outcome, entry.key,
                  ConcatRows(buckets[at].messages, entry.config, key_iter),
                  entry.config, path, instant, default)

\* Lines 216-253 for one entry of the config.
CreateStep(outcome, entry, buckets, key_iter, path, instant, default) ==
    IF outcome.t = "raise" THEN {outcome}
    ELSE FromBucket(outcome, entry, buckets, BucketIndex(buckets, PyStr(entry.key)),
                    key_iter, path, instant, default)

\* Lines 211-255: what _create_dataframes can return or raise.
create_dataframes(buckets, cfg, key_iter, path, instant, default) ==
    IF ~Truthy(path) THEN {[t |-> "raise", error |-> "ValueError"]}
    ELSE LET acc[i \in 0..Len(cfg)] ==
                 IF i = 0 THEN {[t |-> "tables", tables |-> <<>>]}
                 ELSE UNION {CreateStep(o, cfg[i], buckets, key_iter, path, instant, default) :
                                o \in acc[i - 1]}
         IN acc[Len(cfg)]

(***************************************************************************)
(* The processors and batches that are explored: documents routed by       *)
(* header.action, and tables of the action, a field no document holds, and *)
(* the names of the items.                                                 *)
(***************************************************************************)
ActionTable ==
    [fields |-> << Field(<<"header", ".", "action">>, "action"),
                   Field(<<"header", ".", "missing">>, "missing"),
                   Field(<<"items", "[]", ".", "name">>, "name") >>]

Entry(key) == [key |-> key, config |-> ActionTable]

BatchConfigs ==
    { << Entry(Text(<<"A">>)), Entry(Text(<<"C">>)) >>,
      << Entry(Text(<<"5">>)), Entry(Text(<<"B">>)) >>,
      << Entry(Number(5)), Entry(Text(<<"A">>)) >> }

Message(action, names) ==
    MkObj(("header" :> MkObj("action" :> action))
          @@ ("items" :> JArray([i \in 1..Len(names) |-> MkObj("name" :> Text(names[i]))])))

BatchDocs ==
    { Message(Text(<<"A">>), << <<"x">> >>),
      Message(Text(<<"A">>), << <<"x">>, <<>> >>),
      Message(Text(<<"B">>), << <<"y">> >>),
      Message(Number(5), << <<"x">> >>),
      Message(Text(<<"5">>), << <<"x">> >>),
      Message(Absent, << <<"x">> >>),
      Message(MkObj("code" :> Number(5)), << <<"x">> >>),
      MkObj("items" :> JArray(<<>>)),
      MkObj("header" :> Text(<<"A">>)) }

SourcePath == Str(<<"s", "3">>)
Instant == [t |-> "isotime", wall |-> <<2024, 1, 15, 10, 30>>, zone |-> "Z"]

InitBatch ==
    /\ split_path = << "header", "action" >>
    /\ processor_config \in BatchConfigs
    /\ filepath = None
    /\ last_modified = None
    /\ raw_data \in UNION {[1..n -> BatchDocs] : n \in 0..MaxBatch}
    /\ split_lists = None
    /\ dataframes = None
    /\ bpc = "ready"
    /\ TraverseIdle /\ ValidatorIdle /\ EnforceIdle /\ UnitsIdle

\* Lines 29-32, before the first batch or after one.
SetFileMetadata ==
    /\ bpc \in {"ready", "processed"}
    /\ \/ filepath' \in {None, Str(<<>>), SourcePath} /\ last_modified' \in {None, Instant}
       \/ filepath' = Str(<<"s", "3", "b">>)
          /\ last_modified' = [Instant EXCEPT !.wall = <<2024, 2, 1, 0, 0>>]
    /\ bpc' = "ready"
    /\ UNCHANGED <<split_path, processor_config, raw_data, split_lists, dataframes,
                   traverseVars, validatorVars, enforceVars, resultVars, parseVars>>

\* Lines 186-205.
SplitMessages ==
    /\ bpc = "ready"
    /\ split_lists' = split_messages(raw_data, split_path)
    /\ bpc' = "split"
    /\ UNCHANGED <<split_path, processor_config, filepath, last_modified, raw_data,
                   dataframes, traverseVars, validatorVars, enforceVars, resultVars,
                   parseVars>>

\* Lines 207-209.
ProcessMessages ==
    /\ bpc \in {"ready", "processed"}
    /\ \E key_iter \in Perms(TopLevelKeys(ActionTable)) :
          dataframes' \in create_dataframes(split_messages(raw_data, split_path),
                                            processor_config, key_iter,
                                            filepath, last_modified, FALSE)
    /\ bpc' = "processed"
    /\ UNCHANGED <<split_path, processor_config, filepath, last_modified, raw_data,
                   split_lists, traverseVars, validatorVars, enforceVars, resultVars,
                   parseVars>>

NextBatch == SetFileMetadata \/ SplitMessages \/ ProcessMessages

SpecBatch == InitBatch /\ [][NextBatch]_vars

(***************************************************************************)
(* Claims about the assembly of the tables of a batch.                     *)
(***************************************************************************)
Processed == bpc = "processed"
ReturnedTables == Processed /\ dataframes.t = "tables"

MetadataColumns == << "s3_source_path", "s3_last_modified_utc" >>

\* The value a document holds at header.action, Absent when the path does not
\* resolve to one.
Discriminator(m) == At(At(m, "header"), "action")

\* The documents of the batch in the bucket a table is made from: those whose
\* discriminator is the text of the key.
RoutedTo(key) == SelectSeq(raw_data, LAMBDA m : Discriminator(m) = PyStr(key))

\* The documents of the batch whose discriminator is the key, both taken as text.
SameText(key) ==
    SelectSeq(raw_data, LAMBDA m : /\ Discriminator(m).t = "scalar"
                                   /\ PyStr(Discriminator(m)) = PyStr(key))

ConfigOf(key) ==
    processor_config[CHOOSE i \in 1..Len(processor_config) : processor_config[i].key = key].config

\* The rows of a table, a cell for every column.
RowsOf(table) ==
    [i \in 1..NumRows(table) |-> [c \in DOMAIN table.col |-> table.col[c].values[i]]]

AllNull(column) == \A i \in 1..Len(column.values) : IsNA(column.values[i])

\* No row of the documents routed to the key holds the alias.
Unpopulated(key, alias) ==
    \A d \in 1..Len(RoutedTo(key)) :
        \A key_iter \in Perms(TopLevelKeys(ConfigOf(key))) :
            LET rs == Traverse(RoutedTo(key)[d], <<>>, EmptyRow, ConfigOf(key), key_iter)
            IN \A r \in 1..Len(rs) : alias \notin DOMAIN rs[r]

\* C11: the columns of every returned table are the aliases of its config, in
\* the order of the config, followed by s3_source_path and s3_last_modified_utc;
\* the column of an alias that no row of the batch populated is null in every row.
C11_ColumnsInConfigOrder ==
    ReturnedTables =>
        \A t \in 1..Len(dataframes.tables) :
            LET key == dataframes.tables[t].key
                table == dataframes.tables[t].table
                aliases == [i \in 1..Len(ConfigOf(key).fields) |-> ConfigOf(key).fields[i].alias]
            IN /\ table.columns = aliases \o MetadataColumns
               /\ DOMAIN table.col = {table.columns[i] : i \in 1..Len(table.columns)}
               /\ \A i \in 1..Len(aliases) :
                     Unpopulated(key, aliases[i]) =>
                         /\ table.col[aliases[i]].values # <<>>
                         /\ AllNull(table.col[aliases[i]])

\* One document with two items: the table has the five columns in order, the
\* column "missing", which no document holds, is null in both rows.
C11_Witness ==
    /\ ReturnedTables
    /\ raw_data = << Message(Text(<<"A">>), << <<"x">>, <<>> >>) >>
    /\ Len(dataframes.tables) = 1
    /\ dataframes.tables[1].table.columns
          = << "action", "missing", "name", "s3_source_path", "s3_last_modified_utc" >>
    /\ dataframes.tables[1].table.col["missing"].values = << NA, NA >>
    /\ dataframes.tables[1].table.col["name"].values = << Str(<<"x">>), NA >>

\* The cells of a row of the traversal under the aliases of a config.
CellsOf(row, cfg) ==
    [a \in {cfg.fields[i].alias : i \in 1..Len(cfg.fields)} |-> CellOf(row, a)]

\* C12: the rows of every returned table are the rows of the documents routed to
\* it, document after document in the order of the batch; their number is the
\* sum of the numbers of rows of the documents, and equal rows of different
\* documents are all there.
C12_RowsConcatenated ==
    ReturnedTables =>
        \A t \in 1..Len(dataframes.tables) :
            LET key == dataframes.tables[t].key
                table == dataframes.tables[t].table
                docs == RoutedTo(key)
            IN \E key_iter \in Perms(TopLevelKeys(ConfigOf(key))) :
                  LET per_doc == [d \in 1..Len(docs) |->
                                     Traverse(docs[d], <<>>, EmptyRow, ConfigOf(key), key_iter)]
                      expected == Flatten(per_doc)
                  IN /\ NumRows(table) = SumOf([d \in 1..Len(docs) |-> Len(per_doc[d])])
                     /\ \A r \in 1..Len(expected) :
                           \A a \in DOMAIN CellsOf(expected[r], ConfigOf(key)) :
                              RowsOf(table)[r][a] = CellsOf(expected[r], ConfigOf(key))[a]

\* Twice the same document: the table has both rows, equal to each other.
C12_Witness ==
    /\ ReturnedTables
    /\ raw_data = << Message(Text(<<"A">>), << <<"x">> >>), Message(Text(<<"A">>), << <<"x">> >>) >>
    /\ Len(dataframes.tables) = 1
    /\ NumRows(dataframes.tables[1].table) = 2
    /\ RowsOf(dataframes.tables[1].table)[1] = RowsOf(dataframes.tables[1].table)[2]

\* C13 as stated: the keys of the returned tables are the config keys that are,
\* as text, the discriminator of some document of the batch.
C13_Original ==
    ReturnedTables =>
        {dataframes.tables[t].key : t \in 1..Len(dataframes.tables)}
            = {processor_config[i].key : i \in {j \in 1..Len(processor_config) :
                                                   SameText(processor_config[j].key) # <<>>}}

\* Every segment of the discriminator path is a key of the object before it.
FullyResolved(m) == DictHas(m, "header") /\ DictHas(At(m, "header"), "action")

\* C14 as stated: split_messages buckets the batch as it buckets the batch
\* without the documents in which the path does not fully resolve.
C14_Original ==
    bpc = "split" =>
        split_lists = split_messages(SelectSeq(raw_data, FullyResolved), split_path)

MissingMetadata == [t |-> "raise", error |-> "ValueError"]

\* C15 as stated: while the source identifier or the last-modified instant is
\* not set, the assembly of any batch fails with the missing-metadata error; once
\* set_file_metadata supplied both, it does not.
C15_Original ==
    Processed =>
        /\ (filepath = None \/ last_modified = None) => dataframes = MissingMetadata
        /\ (filepath # None /\ last_modified # None) => dataframes # MissingMetadata

(***************************************************************************)
(* C27, C28.  Metadata over a sequence of calls; the buckets.              *)
(***************************************************************************)
\* C27: process_messages leaves the stored metadata and the config as they are,
\* and in every table it returns every row carries the source identifier and
\* the last-modified instant stored at the call, which are those of the most
\* recent set_file_metadata.
C27_MetadataOfLatestCall ==
    [][ProcessMessages =>
        /\ filepath' = filepath
        /\ last_modified' = last_modified
        /\ processor_config' = processor_config
        /\ dataframes'.t = "tables" =>
              \A t \in 1..Len(dataframes'.tables) :
                  LET table == dataframes'.tables[t].table
                  IN \A i \in 1..NumRows(table) :
                        /\ table.col["s3_source_path"].values[i] = filepath
                        /\ table.col["s3_last_modified_utc"].values[i]
                              = [t |-> "datetime64[us]", wall |-> last_modified.wall]]_vars

\* A table of two rows made after the metadata was set to the second source:
\* both rows carry it.
C27_Witness ==
    /\ ReturnedTables
    /\ filepath = Str(<<"s", "3", "b">>)
    /\ Len(dataframes.tables) = 1
    /\ dataframes.tables[1].table.col["s3_source_path"].values
          = << Str(<<"s", "3", "b">>), Str(<<"s", "3", "b">>) >>
    /\ dataframes.tables[1].table.col["s3_last_modified_utc"].values
          = << [t |-> "datetime64[us]", wall |-> <<2024, 2, 1, 0, 0>>],
               [t |-> "datetime64[us]", wall |-> <<2024, 2, 1, 0, 0>>] >>

\* The buckets hold, for the document, exactly one bucket under its
\* discriminator, made of the documents of that discriminator in batch order.
InItsBucket(m) ==
    /\ \E b \in 1..Len(split_lists) :
          /\ split_lists[b].key = Discriminator(m)
          /\ split_lists[b].messages
                = SelectSeq(raw_data, LAMBDA d : FullyResolved(d)
                                                 /\ Discriminator(d) = Discriminator(m))
    /\ \A b, c \in 1..Len(split_lists) :
          (split_lists[b].key = split_lists[c].key) => b = c
    /\ \A b \in 1..Len(split_lists) :
          split_lists[b].key # Discriminator(m) =>
              \A j \in 1..Len(split_lists[b].messages) : split_lists[b].messages[j] # m

\* C28 as stated: every document whose path resolves is in exactly one bucket,
\* the one of its discriminator, in batch order; no bucket is empty.
C28_Original ==
    bpc = "split" =>
        /\ \A i \in 1..Len(raw_data) : FullyResolved(raw_data[i]) => InItsBucket(raw_data[i])
        /\ \A b \in 1..Len(split_lists) : split_lists[b].messages # <<>>

\* C28: every document whose path resolves to a text, a number or null is in
\* exactly one bucket, the one of its discriminator, the documents of a bucket
\* are in batch order, and no bucket is empty.
C28_HashablePartition ==
    bpc = "split" =>
        /\ \A i \in 1..Len(raw_data) :
              (FullyResolved(raw_data[i]) /\ Discriminator(raw_data[i]).t \in {"scalar", "null"})
                  => InItsBucket(raw_data[i])
        /\ \A b \in 1..Len(split_lists) : split_lists[b].messages # <<>>

\* Two different documents of one discriminator: one bucket, in batch order.
C28_Witness ==
    /\ bpc = "split"
    /\ raw_data = << Message(Text(<<"A">>), << <<"x">>, <<>> >>),
                     Message(Text(<<"A">>), << <<"x">> >>) >>
    /\ split_lists = << [key |-> Text(<<"A">>), messages |-> raw_data] >>

(***************************************************************************)
(* ValidationResult (validator.py 16-28): a result and the calls made on   *)
(* it.                                                                     *)
(***************************************************************************)
\* The longest sequence of add_warning and add_error calls explored.
MaxCalls == 4

\* The messages passed to the calls.
Messages == {"m1", "m2"}

\* add_warning that also clears success, as add_error does.
add_warning_failing(r, msg) == [r EXCEPT !.warnings = Append(@, msg), !.success = FALSE]

\* Lines 22-23: self.warnings.append(msg).
add_warning(r, msg) == [r EXCEPT !.warnings = Append(@, msg)]

\* Lines 25-27: self.errors.append(msg); self.success = False.
add_error(r, msg) == [r EXCEPT !.errors = Append(@, msg), !.success = FALSE]

\* ValidationResult(success=True): the dataclass defaults give two empty lists.
InitResult ==
    /\ vresult = FreshResult
    /\ calls = <<>>
    /\ field_source = <<>> /\ extracted = None
    /\ TraverseIdle /\ ValidatorIdle /\ EnforceIdle /\ BatchIdle

AddWarning ==
    /\ Len(calls) < MaxCalls
    /\ \E msg \in Messages :
          /\ vresult' = add_warning(vresult, msg)
          /\ calls' = Append(calls, [op |-> "add_warning", msg |-> msg])
    /\ UNCHANGED <<traverseVars, validatorVars, enforceVars, batchVars, parseVars>>

AddError ==
    /\ Len(calls) < MaxCalls
    /\ \E msg \in Messages :
          /\ vresult' = add_error(vresult, msg)
          /\ calls' = Append(calls, [op |-> "add_error", msg |-> msg])
    /\ UNCHANGED <<traverseVars, validatorVars, enforceVars, batchVars, parseVars>>

NextResult == AddWarning \/ AddError

SpecResult == InitResult /\ [][NextResult]_vars

\* The messages of the calls of one operation, in call order.
MessagesOf(op) ==
    LET kept == SelectSeq(calls, LAMBDA c : c.op = op)
    IN  [i \in 1..Len(kept) |-> kept[i].msg]

\* What the calls made so far say the result holds.
FollowsCalls ==
    /\ vresult.success = ~(\E i \in 1..Len(calls) : calls[i].op = "add_error")
    /\ vresult.warnings = MessagesOf("add_warning")
    /\ vresult.errors = MessagesOf("add_error")

\* C22: after any sequence of add_warning and add_error calls, success is false
\* exactly when add_error was called, warnings and errors hold the messages of
\* their calls in call order, and add_warning changes neither success nor errors.
C22_ResultFollowsCalls ==
    /\ [](vresult # None => FollowsCalls)
    /\ [][AddWarning => vresult'.success = vresult.success
                        /\ vresult'.errors = vresult.errors]_vars

\* Warnings on both sides of an error, and a second error after them.
C22_Witness ==
    /\ Len(calls) = 4
    /\ calls[1].op = "add_warning" /\ calls[2].op = "add_error"
    /\ calls[3].op = "add_warning" /\ calls[4].op = "add_error"
    /\ calls[1].msg # calls[3].msg
    /\ vresult.success = FALSE

(***************************************************************************)
(* JsonProcessor._extract_path (json_processor.py 34-38) on its own.       *)
(***************************************************************************)
\* The longest source explored, in tokens: names, dots and markers.
MaxSource == 4

\* Sources of up to MaxSource tokens in which no part holds two names.
Sources ==
    {src \in UNION {[1..n -> {"a", "b", ".", "[]"}] : n \in 0..MaxSource} :
        \A i \in 1..Len(SplitDot(src)) :
            Len(SelectSeq(SplitDot(src)[i], LAMBDA tok : tok # "[]")) <= 1}

InitParse ==
    /\ field_source \in Sources
    /\ extracted = None
    /\ vresult = None /\ calls = <<>>
    /\ TraverseIdle /\ ValidatorIdle /\ EnforceIdle /\ BatchIdle

\* path, is_in_array = self._extract_path(source): the method has no raise
\* statement and str.split raises for no string.
ExtractPathCall ==
    /\ extracted = None
    /\ extracted' = [t |-> "return", value |-> ExtractPath(field_source)]
    /\ UNCHANGED <<field_source, vresult, calls,
                   traverseVars, validatorVars, enforceVars, batchVars>>

NextParse == ExtractPathCall

SpecParse == InitParse /\ [][NextParse]_vars

\* C24 as stated: parsing the empty source fails with InvalidFieldSpec and yields
\* no segments, and parsing a source that is not empty raises no error.
C24_Original ==
    extracted # None =>
        IF field_source = <<>>
        THEN extracted = [t |-> "raise", error |-> "InvalidFieldSpec"]
        ELSE extracted.t = "return"

(***************************************************************************)
(* DataValidator.to_boolean and to_datetime (validator.py 225-323).        *)
(*                                                                         *)
(* A bool is [t |-> "bool", b |-> ...], a timestamp the date it holds, NaT *)
(* the null NA.                                                            *)
(***************************************************************************)
Bool(b) == [t |-> "bool", b |-> b]
Timestamp(y, m, d) == [t |-> "ts", y |-> y, m |-> m, d |-> d]

UpperCase == <<"A", "B", "C", "D", "E", "F", "G", "H", "I", "J", "K", "L", "M",
               "N", "O", "P", "Q", "R", "S", "T", "U", "V", "W", "X", "Y", "Z">>
LowerCase == <<"a", "b", "c", "d", "e", "f", "g", "h", "i", "j", "k", "l", "m",
               "n", "o", "p", "q", "r", "s", "t", "u", "v", "w", "x", "y", "z">>

\* str.lower()
Lower(chars) ==
    [i \in 1..Len(chars) |->
        IF \E k \in 1..26 : UpperCase[k] = chars[i]
        THEN LowerCase[CHOOSE k \in 1..26 : UpperCase[k] = chars[i]]
        ELSE chars[i]]

\* str.strip(c), and str.strip() for c = " ".
Strip(chars, c) ==
    LET kept == {i \in 1..Len(chars) : chars[i] # c}
    IN IF kept = {} THEN <<>>
       ELSE SubSeq(chars, CHOOSE i \in kept : \A j \in kept : i <= j,
                          CHOOSE i \in kept : \A j \in kept : j <= i)

Chars(word) ==
    CASE word = "true" -> <<"t", "r", "u", "e">>
      [] word = "false" -> <<"f", "a", "l", "s", "e">>
      [] word = "yes" -> <<"y", "e", "s">>
      [] word = "no" -> <<"n", "o">>
      [] word = "on" -> <<"o", "n">>
      [] word = "off" -> <<"o", "f", "f">>
      [] word = "y" -> <<"y">>
      [] word = "n" -> <<"n">>

\* word, Word and WORD, as lines 295-302 list them.
Cased(word) ==
    LET w == Chars(word)
        upper == [i \in 1..Len(w) |-> UpperCase[CHOOSE k \in 1..26 : LowerCase[k] = w[i]]]
    IN {w, [w EXCEPT ![1] = upper[1]], upper}

\* Lines 295-298: the str entries of true_vals, next to True, 1 and 1.0.
TrueStrings == Cased("true") \cup Cased("yes") \cup {<<"1">>, <<"y">>, <<"Y">>} \cup Cased("on")

\* Lines 299-302: the str entries of false_vals, next to False, 0 and 0.0.
FalseStrings == Cased("false") \cup Cased("no") \cup {<<"0">>, <<"n">>, <<"N">>} \cup Cased("off")

\* x in vals, for the list that holds the bool b, the int and the float of b and
\* the strs: True == 1 == 1.0 and False == 0 == 0.0.
InVals(x, b, strings) ==
    \/ x.t = "bool" /\ x.b = b
    \/ x.t = "dec" /\ x.e = 0 /\ x.m = (IF b THEN 1 ELSE 0)
    \/ x.t = "str" /\ x.s \in strings

\* [str(v).lower() for v in vals]: the strs lowered, str(True).lower(), '1', '1.0'.
Lowered(b, strings) ==
    {Lower(w) : w \in strings}
    \cup (IF b THEN {Chars("true"), <<"1">>, <<"1", ".", "0">>}
          ELSE {Chars("false"), <<"0">>, <<"0", ".", "0">>})

\* str(x) of an element.
PyStrOf(x) ==
    IF x.t = "str" THEN x.s
    ELSE IF x.t = "bool" THEN (IF x.b THEN <<"T", "r", "u", "e">> ELSE <<"F", "a", "l", "s", "e">>)
    ELSE StrOfDec(x)

\* Lines 312-320: the match of str(x).strip().lower().
MatchLowered(x, s) ==
    IF s \in Lowered(TRUE, TrueStrings) THEN [value |-> Bool(TRUE), warnings |-> <<>>]
    ELSE IF s \in Lowered(FALSE, FalseStrings) THEN [value |-> Bool(FALSE), warnings |-> <<>>]
    ELSE [value |-> NA, warnings |-> << [msg |-> "Unknown boolean value", x |-> x] >>]

\* Lines 304-320.
convert_bool(x) ==
    IF IsNA(x) THEN [value |-> NA, warnings |-> <<>>]
    ELSE IF InVals(x, TRUE, TrueStrings) THEN [value |-> Bool(TRUE), warnings |-> <<>>]
    ELSE IF InVals(x, FALSE, FalseStrings) THEN [value |-> Bool(FALSE), warnings |-> <<>>]
    ELSE MatchLowered(x, Lower(Strip(PyStrOf(x), " ")))

\* Lines 293-323: series.apply(convert_bool) and the warnings it leaves.
to_boolean(xs) ==
    LET applied[i \in 0..Len(xs)] ==
            IF i = 0 THEN [cleaned |-> <<>>, warnings |-> <<>>]
            ELSE AppendCleaned(applied[i - 1], convert_bool(xs[i]))
    IN [result |-> applied[Len(xs)].cleaned,
        last_result |-> [FreshResult EXCEPT !.warnings = applied[Len(xs)].warnings]]

\* The entries of DEFAULT_DATE_FORMATS (lines 49-65) without a time of day, in
\* their order, as directives and literal characters.  An entry with a time of
\* day matches no str that is a date only, or reads an ISO date as the entry
\* '%Y-%m-%d' reads it.
DateFormats ==
    << <<"%Y", "-", "%m", "-", "%d">>, <<"%m", "/", "%d", "/", "%Y">>,
       <<"%m", "/", "%d", "/", "%y">>, <<"%d", "/", "%m", "/", "%Y">>,
       <<"%d", "-", "%m", "-", "%Y">>, <<"%Y", "%m", "%d">> >>

IsDirective(tok) == tok \in {"%Y", "%y", "%m", "%d"}
Width(tok) == IF tok = "%Y" THEN 4 ELSE IF IsDirective(tok) THEN 2 ELSE 1

NumberAt(chars, from, width) ==
    LET val[i \in 0..width] ==
            IF i = 0 THEN 0 ELSE 10 * val[i - 1] + DigitVal(chars[from + i - 1])
    IN val[width]

\* One directive or literal of a format, read at the position reached.
ReadToken(acc, chars, tok) ==
    LET w == Width(tok)
        fits == /\ acc.ok /\ acc.pos + w - 1 <= Len(chars)
                /\ \A i \in acc.pos..(acc.pos + w - 1) :
                      IF IsDirective(tok) THEN chars[i] \in Digits ELSE chars[i] = tok
    IN IF ~fits THEN [acc EXCEPT !.ok = FALSE]
       ELSE LET n == IF IsDirective(tok) THEN NumberAt(chars, acc.pos, w) ELSE 0
            IN [ok |-> TRUE, pos |-> acc.pos + w,
                y |-> IF tok = "%Y" THEN n
                      ELSE IF tok = "%y" THEN (IF n < 69 THEN 2000 + n ELSE 1900 + n)
                      ELSE acc.y,
                m |-> IF tok = "%m" THEN n ELSE acc.m,
                d |-> IF tok = "%d" THEN n ELSE acc.d]

DaysIn(y, m) ==
    IF m = 2 THEN (IF y % 4 = 0 /\ (y % 100 # 0 \/ y % 400 = 0) THEN 29 ELSE 28)
    ELSE IF m \in {4, 6, 9, 11} THEN 30 ELSE 31

\* The timestamp a str holds under a format, NA when it does not match it.
Strptime(chars, format) ==
    LET read[i \in 0..Len(format)] ==
            IF i = 0 THEN [ok |-> TRUE, pos |-> 1, y |-> 0, m |-> 0, d |-> 0]
            ELSE ReadToken(read[i - 1], chars, format[i])
        end == read[Len(format)]
    IN IF /\ end.ok /\ end.pos = Len(chars) + 1
          /\ end.m \in 1..12 /\ end.d >= 1 /\ end.d <= DaysIn(end.y, end.m)
       THEN Timestamp(end.y, end.m, end.d)
       ELSE NA

\* pd.to_datetime(series, format=...): nulls become NaT and timestamps stay.
ParseWith(x, format) ==
    IF IsNA(x) THEN NA ELSE IF x.t = "ts" THEN x ELSE Strptime(x.s, format)

\* Lines 249-253 raise for no element.
Matches(xs, format) == \A i \in 1..Len(xs) : IsNA(xs[i]) \/ ~IsNA(ParseWith(xs[i], format))

\* The first format an element matches, 0 when there is none.
FirstFormat(x) ==
    IF \E k \in 1..Len(DateFormats) : ~IsNA(ParseWith(x, DateFormats[k]))
    THEN CHOOSE k \in 1..Len(DateFormats) :
             /\ ~IsNA(ParseWith(x, DateFormats[k]))
             /\ \A j \in 1..(k - 1) : IsNA(ParseWith(x, DateFormats[j]))
    ELSE 0

\* Element by element, as pandas before 2.0 infers.
InferEach(xs) ==
    [i \in 1..Len(xs) |->
        IF FirstFormat(xs[i]) = 0 THEN NA ELSE ParseWith(xs[i], DateFormats[FirstFormat(xs[i])])]

\* With the format of the first element that is not null, as pandas from 2.0
\* on infers; element by element when that element has no format.
InferFromFirst(xs) ==
    LET present == {i \in 1..Len(xs) : ~IsNA(xs[i])}
        first == CHOOSE i \in present : \A j \in present : i <= j
    IN IF present = {} \/ FirstFormat(xs[first]) = 0 THEN InferEach(xs)
       ELSE [i \in 1..Len(xs) |-> ParseWith(xs[i], DateFormats[FirstFormat(xs[first])])]

\* Lines 258-274: the fallback, with its warnings.
Inferred(xs, parsed) ==
    [result |-> parsed,
     last_result |->
         [FreshResult EXCEPT !.warnings =
             << [msg |-> "No exact format match - using pandas datetime inference"] >>
             \o (IF CountNA(parsed) > CountNA(xs)
                 THEN << [msg |-> "values could not be parsed as datetime",
                          count |-> CountNA(parsed) - CountNA(xs)] >>
                 ELSE <<>>)]]

\* Lines 242-274: what to_datetime can return and leave in _last_result.
to_datetime(xs) ==
    IF \E k \in 1..Len(DateFormats) : Matches(xs, DateFormats[k])
    THEN LET k == CHOOSE k \in 1..Len(DateFormats) :
                      /\ Matches(xs, DateFormats[k])
                      /\ \A j \in 1..(k - 1) : ~Matches(xs, DateFormats[j])
         IN {[result |-> [i \in 1..Len(xs) |-> ParseWith(xs[i], DateFormats[k])],
              last_result |-> FreshResult]}
    ELSE {Inferred(xs, InferEach(xs)), Inferred(xs, InferFromFirst(xs))}

(***************************************************************************)
(* DataValidator.normalize_columns, apply_schema, validate_not_null and    *)
(* validate_unique (validator.py 325-524).                                 *)
(*                                                                         *)
(* A DataFrame is here the sequence of its columns, each a name, given by  *)
(* its characters, and the values; a schema is the sequence of its         *)
(* entries, each the column name and the spec with the keys it has.        *)
(***************************************************************************)
Col(name, values) == [name |-> name, values |-> values]

\* re.sub of a run of the characters of a class by one underscore.
ReplaceRuns(chars, class) ==
    LET out[i \in 0..Len(chars)] ==
            IF i = 0 THEN <<>>
            ELSE IF chars[i] \notin class THEN Append(out[i - 1], chars[i])
            ELSE IF i > 1 /\ chars[i - 1] \in class THEN out[i - 1]
            ELSE Append(out[i - 1], "_")
    IN out[Len(chars)]

\* \w
IsWord(c) ==
    c \in Digits \cup {"_"} \cup {UpperCase[k] : k \in 1..26} \cup {LowerCase[k] : k \in 1..26}

\* Lines 349-354; after line 350 no '$' is left for line 353 to strip.
NormalizeName(chars) ==
    Lower(Strip(ReplaceRuns(SelectSeq(ReplaceRuns(chars, {" ", "-"}), IsWord), {"_"}), "_"))

\* Lines 365-367: a warning for each column that was renamed, in column order.
Renames(frame) ==
    LET renamed == SelectSeq(frame, LAMBDA c : NormalizeName(c.name) # c.name)
    IN [i \in 1..Len(renamed) |->
           [msg |-> "Renamed column", old |-> renamed[i].name,
            new |-> NormalizeName(renamed[i].name)]]

\* Lines 357-362: the names that normalization gives to more than one column.
Duplicates(frame) ==
    {NormalizeName(frame[i].name) : i \in {i \in 1..Len(frame) :
        \E j \in 1..Len(frame) : j # i /\ NormalizeName(frame[j].name) = NormalizeName(frame[i].name)}}

\* Lines 343-369.
normalize_columns(frame) ==
    [result |-> [i \in 1..Len(frame) |-> Col(NormalizeName(frame[i].name), frame[i].values)],
     last_result |->
         [success |-> Duplicates(frame) = {},
          warnings |-> Renames(frame),
          errors |-> IF Duplicates(frame) = {} THEN <<>>
                     ELSE << [msg |-> "Column normalization created duplicates",
                              names |-> Duplicates(frame)] >>]]

HasColumn(frame, name) == \E i \in 1..Len(frame) : frame[i].name = name
ValuesOf(frame, name) == frame[CHOOSE i \in 1..Len(frame) : frame[i].name = name].values

\* Lines 474-483 for one column.
NotNullStep(r, frame, col) ==
    IF ~HasColumn(frame, col) THEN add_error(r, [msg |-> "Column not found", col |-> col])
    ELSE IF CountNA(ValuesOf(frame, col)) > 0
    THEN add_error(r, [msg |-> "has null values", col |-> col,
                       count |-> CountNA(ValuesOf(frame, col))])
    ELSE r

\* Lines 472-486: the result is returned and kept as _last_result.
validate_not_null(frame, columns) ==
    LET r[i \in 0..Len(columns)] ==
            IF i = 0 THEN FreshResult ELSE NotNullStep(r[i - 1], frame, columns[i])
    IN [result |-> r[Len(columns)], last_result |-> r[Len(columns)]]

\* Line 515-516: the rows that share their values in the columns with another row.
DupCount(frame, columns) ==
    LET n == Len(frame[1].values)
        key(r) == [c \in 1..Len(columns) |->
                      IF IsNA(ValuesOf(frame, columns[c])[r]) THEN NA
                      ELSE ValuesOf(frame, columns[c])[r]]
    IN Cardinality({r \in 1..n : \E q \in 1..n : q # r /\ key(q) = key(r)})

\* Lines 503-524; prior is the _last_result the call finds.  The return of line
\* 512 leaves _last_result as it is.
validate_unique(frame, columns, prior) ==
    IF \E c \in 1..Len(columns) : ~HasColumn(frame, columns[c])
    THEN [result |-> add_error(FreshResult,
                        [msg |-> "Column not found",
                         col |-> columns[CHOOSE c \in 1..Len(columns) :
                                    /\ ~HasColumn(frame, columns[c])
                                    /\ \A b \in 1..(c - 1) : HasColumn(frame, columns[b])]]),
          last_result |-> prior]
    ELSE LET r == IF DupCount(frame, columns) > 0
                  THEN add_error(FreshResult,
                           [msg |-> "Found duplicate rows", count |-> DupCount(frame, columns),
                            columns |-> columns])
                  ELSE FreshResult
         IN [result |-> r, last_result |-> r]

\* Lines 424-432: the type names of each conversion.
IntegerTypes ==
    {<<"i", "n", "t", "e", "g", "e", "r">>, <<"i", "n", "t">>, <<"b", "i", "g", "i", "n", "t">>}
FloatTypes ==
    {<<"f", "l", "o", "a", "t">>, <<"d", "e", "c", "i", "m", "a", "l">>, <<"n", "u", "m", "e", "r", "i", "c">>, <<"d", "o", "u", "b", "l", "e">>}
DatetimeTypes ==
    {<<"d", "a", "t", "e", "t", "i", "m", "e">>, <<"d", "a", "t", "e">>, <<"t", "i", "m", "e", "s", "t", "a", "m", "p">>}
BooleanTypes ==
    {<<"b", "o", "o", "l", "e", "a", "n">>, <<"b", "o", "o", "l">>}
StringTypes ==
    {<<"s", "t", "r", "i", "n", "g">>, <<"s", "t", "r">>, <<"v", "a", "r", "c", "h", "a", "r">>, <<"t", "e", "x", "t">>}

\* Line 433: series.astype(str).replace('nan', pd.NA), on a column whose nulls
\* are NaN.
AsStr(values) ==
    [i \in 1..Len(values) |->
        IF IsNA(values[i]) THEN NA
        ELSE IF values[i].t = "str" /\ values[i].s = <<"n", "a", "n">> THEN NA
        ELSE Str(PyStrOf(values[i]))]

\* Lines 405-408: col_spec.get(key, default).
SpecGet(entry, key, default) ==
    IF key \in DOMAIN entry.spec THEN entry.spec[key] ELSE default

SourceOf(entry) == SpecGet(entry, "source", entry.name)

\* Lines 424-435: the series and _last_result a conversion can leave, and the
\* warning for a type that is not known.  last is _last_result before it.
Conversions(values, dtype, col_name, last) ==
    IF dtype \in IntegerTypes THEN {to_integer(values) @@ [unknown |-> <<>>]}
    ELSE IF dtype \in FloatTypes THEN {to_numeric(values, TRUE) @@ [unknown |-> <<>>]}
    ELSE IF dtype \in DatetimeTypes THEN {o @@ [unknown |-> <<>>] : o \in to_datetime(values)}
    ELSE IF dtype \in BooleanTypes THEN {to_boolean(values) @@ [unknown |-> <<>>]}
    ELSE IF dtype \in StringTypes
    THEN {[result |-> AsStr(values), last_result |-> last, unknown |-> <<>>]}
    ELSE {[result |-> values, last_result |-> last,
           unknown |-> << [msg |-> "Unknown type", dtype |-> dtype, col |-> col_name] >>]}

\* Lines 438-440: the warnings of _last_result, under the name of the column.
Captured(col_name, last) ==
    IF last = None THEN <<>>
    ELSE [i \in 1..Len(last.warnings) |-> [col |-> col_name, w |-> last.warnings[i]]]

\* output_df[name] = series
SetColumn(out, name, values) ==
    IF HasColumn(out, name)
    THEN [i \in 1..Len(out) |-> IF out[i].name = name THEN Col(name, values) ELSE out[i]]
    ELSE Append(out, Col(name, values))

\* Lines 436-446 after one conversion.
Converted(acc, entry, o) ==
    [out |-> SetColumn(acc.out, SpecGet(entry, "rename", entry.name), o.result),
     result |-> [acc.result EXCEPT
                    !.warnings = @ \o o.unknown \o Captured(entry.name, o.last_result)],
     last |-> o.last_result]

\* col_map[source.lower()]: the last column with that name in lower case.
ActualSource(frame, source) ==
    frame[CHOOSE i \in 1..Len(frame) :
              /\ Lower(frame[i].name) = Lower(source)
              /\ \A j \in (i + 1)..Len(frame) : Lower(frame[j].name) # Lower(source)]

\* Lines 404-446 for one entry of the schema.
SchemaStep(acc, entry, frame) ==
    IF \A i \in 1..Len(frame) : Lower(frame[i].name) # Lower(SourceOf(entry))
    THEN {[acc EXCEPT !.result =
              IF SpecGet(entry, "required", FALSE)
              THEN add_error(@, [msg |-> "Required column missing", col |-> SourceOf(entry)])
              ELSE add_warning(@, [msg |-> "Optional column missing", col |-> SourceOf(entry)])]}
    ELSE {Converted(acc, entry, o) :
             o \in Conversions(ActualSource(frame, SourceOf(entry)).values,
                               Lower(SpecGet(entry, "type", <<"s", "t", "r", "i", "n", "g">>)),
                               entry.name, acc.last)}

\* Lines 449-452: the columns no entry of the schema names as its source.
WithExtra(out, frame, schema) ==
    LET added[i \in 0..Len(frame)] ==
            IF i = 0 THEN out
            ELSE IF \E k \in 1..Len(schema) : Lower(SourceOf(schema[k])) = Lower(frame[i].name)
                 THEN added[i - 1]
                 ELSE SetColumn(added[i - 1], frame[i].name, frame[i].values)
    IN added[Len(frame)]

\* Lines 398-455: what apply_schema can return, and the _last_result it leaves;
\* prior is the _last_result the call finds.
apply_schema(frame, schema, drop_extra, prior) ==
    LET accs[i \in 0..Len(schema)] ==
            IF i = 0 THEN {[out |-> <<>>, result |-> FreshResult, last |-> prior]}
            ELSE UNION {SchemaStep(a, schema[i], frame) : a \in accs[i - 1]}
    IN {[result |-> [df |-> IF drop_extra THEN a.out ELSE WithExtra(a.out, frame, schema),
                     result |-> a.result],
         last_result |-> a.result] : a \in accs[Len(schema)]}

(***************************************************************************)
(* A DataValidator over a sequence of calls.                               *)
(***************************************************************************)
\* The longest sequence of calls explored.
MaxOps == 3

\* Series of strs: amounts and flags.
TextSeries ==
    {<<Str(<<"$", "5">>), Str(<<"x">>)>>, <<Str(<<"5", ".", "5">>)>>,
     <<Str(<<"y", "e", "s">>), Str(<<" ", "N", "o", " ">>), Str(<<"m", "a", "y", "b", "e">>)>>}

\* Series of dates as strs: two formats in one series, one format next to a
\* null, the day before the month, and a day that does not exist.
DateSeries ==
    {<<Str(<<"2", "0", "2", "4", "-", "0", "1", "-", "1", "5">>), Str(<<"0", "1", "/", "1", "5", "/", "2", "0", "2", "4">>)>>,
     <<Str(<<"2", "0", "2", "4", "-", "0", "1", "-", "1", "5">>), NA>>, <<Str(<<"1", "5", "/", "0", "1", "/", "2", "0", "2", "4">>)>>,
     <<Str(<<"2", "0", "2", "4", "-", "0", "2", "-", "3", "0">>)>>}

\* Series that have their type already.
NumberSeries == {<<Dec(FALSE, 1, 0), Dec(FALSE, 0, 0)>>, <<Dec(FALSE, 55, 1), NA>>}
BoolSeries == {<<Bool(TRUE), Bool(FALSE), NA>>}
TimestampSeries == {<<Timestamp(2024, 1, 15), NA>>}

Orders ==
    << Col(<<"A", "m", "o", "u", "n", "t">>, <<Str(<<"$", "5">>), Str(<<"x">>)>>),
       Col(<<"n", "a", "m", "e">>, <<Str(<<"a">>), Str(<<"a">>)>>),
       Col(<<"P", "a", "i", "d">>, <<Str(<<"y", "e", "s">>), Str(<<"m", "a", "y", "b", "e">>)>>),
       Col(<<"W", "h", "e", "n">>, <<Str(<<"2", "0", "2", "4", "-", "0", "1", "-", "1", "5">>), Str(<<"0", "1", "/", "1", "5", "/", "2", "0", "2", "4">>)>>) >>

Contacts ==
    << Col(<<"F", "i", "r", "s", "t", " ", "N", "a", "m", "e">>, <<Str(<<"a">>), NA>>),
       Col(<<"f", "i", "r", "s", "t", "-", "n", "a", "m", "e">>, <<Str(<<"a">>), Str(<<"b">>)>>),
       Col(<<"$", "T", "o", "t", "a", "l", "_", "_">>, <<Str(<<"5">>), Str(<<"5">>)>>) >>

Frames == {Orders, Contacts}

SchemaEntry(name, spec) == [name |-> name, spec |-> spec]

Schemas ==
    {<< SchemaEntry(<<"a", "m", "o", "u", "n", "t">>, [type |-> <<"f", "l", "o", "a", "t">>]),
        SchemaEntry(<<"n", "a", "m", "e">>, [type |-> <<"S", "t", "r", "i", "n", "g">>]) >>,
     << SchemaEntry(<<"n", "a", "m", "e">>, [type |-> <<"t", "e", "x", "t">>]),
        SchemaEntry(<<"a", "m", "o", "u", "n", "t">>, [type |-> <<"i", "n", "t", "e", "g", "e", "r">>, required |-> TRUE]) >>,
     << SchemaEntry(<<"p", "a", "i", "d">>, [type |-> <<"b", "o", "o", "l", "e", "a", "n">>, rename |-> <<"i", "s", "_", "p", "a", "i", "d">>]),
        SchemaEntry(<<"d", "a", "y">>, [type |-> <<"d", "a", "t", "e">>, source |-> <<"w", "h", "e", "n">>]),
        SchemaEntry(<<"n", "a", "m", "e">>, [type |-> <<"b", "l", "o", "b">>]),
        SchemaEntry(<<"t", "o", "t", "a", "l">>, [required |-> TRUE]),
        SchemaEntry(<<"n", "o", "t", "e">>, [required |-> FALSE]) >>}

ColumnLists ==
    {<< <<"n", "a", "m", "e">> >>, << <<"A", "m", "o", "u", "n", "t">>, <<"n", "a", "m", "e">> >>, << <<"W", "h", "e", "n">> >>,
     << <<"t", "o", "t", "a", "l">> >>, << <<"n", "a", "m", "e">>, <<"t", "o", "t", "a", "l">> >>}

\* DataValidator(): _last_result is None.
InitSession ==
    /\ series = <<>> /\ allow_negative = TRUE /\ result = None /\ last_result = None
    /\ vpc = "new" /\ ops = 0
    /\ TraverseIdle /\ EnforceIdle /\ BatchIdle /\ UnitsIdle

\* A call returns: the tuple of its arguments (the series itself for a call on a
\* series), what it returned and what it left behind.
Returns(op, args, o) ==
    /\ ops < MaxOps
    /\ series' = args /\ result' = o.result /\ last_result' = o.last_result
    /\ vpc' = op /\ ops' = ops + 1
    /\ UNCHANGED <<traverseVars, enforceVars, batchVars, resultVars, parseVars>>

CallToNumeric ==
    \E xs \in TextSeries \cup DateSeries \cup NumberSeries, allow_neg \in BOOLEAN :
        /\ allow_negative' = allow_neg
        /\ Returns("to_numeric", xs, to_numeric(xs, allow_neg))

CallToInteger ==
    \E xs \in TextSeries \cup DateSeries \cup NumberSeries :
        UNCHANGED allow_negative /\ Returns("to_integer", xs, to_integer(xs))

CallToBoolean ==
    \E xs \in TextSeries \cup DateSeries \cup NumberSeries \cup BoolSeries :
        UNCHANGED allow_negative /\ Returns("to_boolean", xs, to_boolean(xs))

CallToDatetime ==
    \E xs \in DateSeries \cup TimestampSeries : \E o \in to_datetime(xs) :
        UNCHANGED allow_negative /\ Returns("to_datetime", xs, o)

CallNormalizeColumns ==
    \E frame \in Frames :
        UNCHANGED allow_negative
        /\ Returns("normalize_columns", <<frame>>, normalize_columns(frame))

CallApplySchema ==
    \E frame \in Frames, schema \in Schemas, drop_extra \in BOOLEAN :
        \E o \in apply_schema(frame, schema, drop_extra, last_result) :
            /\ UNCHANGED allow_negative
            /\ Returns("apply_schema", <<frame, schema, drop_extra>>, o)

CallValidateNotNull ==
    \E frame \in Frames, columns \in ColumnLists :
        /\ UNCHANGED allow_negative
        /\ Returns("validate_not_null", <<frame, columns>>,
                   validate_not_null(frame, columns))

CallValidateUnique ==
    \E frame \in Frames, columns \in ColumnLists :
        /\ UNCHANGED allow_negative
        /\ Returns("validate_unique", <<frame, columns>>,
                   validate_unique(frame, columns, last_result))

NextSession ==
    \/ CallToNumeric \/ CallToInteger \/ CallToBoolean \/ CallToDatetime
    \/ CallNormalizeColumns \/ CallApplySchema
    \/ CallValidateNotNull \/ CallValidateUnique

SpecSession == InitSession /\ [][NextSession]_vars

(***************************************************************************)
(* C23, C29.  What a call leaves in _last_result, and what apply_schema    *)
(* reports under the name of a column.                                     *)
(***************************************************************************)
\* C23 as stated, for the operations that return a ValidationResult: after
\* validate_not_null and validate_unique last_result is the returned result,
\* also when the operation stops early on a missing column, and after
\* apply_schema it is the result returned next to the frame.
C23_Original ==
    /\ vpc \in {"validate_not_null", "validate_unique"} => last_result = result
    /\ vpc = "apply_schema" => last_result = result.result

\* The type of a schema entry, as line 406 reads it.
TypeOf(entry) == Lower(SpecGet(entry, "type", <<"s", "t", "r", "i", "n", "g">>))

\* The type of the entry triggers no conversion call: string, or not known.
NoConversion(entry) ==
    TypeOf(entry) \notin IntegerTypes \cup FloatTypes \cup DatetimeTypes \cup BooleanTypes

\* C29 as stated: apply_schema reports no conversion warning under the name of a
\* column whose type triggers no conversion call.  series[2] is the schema.
C29_Original ==
    vpc = "apply_schema" =>
        \A k \in 1..Len(series[2]) :
            NoConversion(series[2][k]) =>
                \A i \in 1..Len(result.result.warnings) :
                    "w" \in DOMAIN result.result.warnings[i]
                    => result.result.warnings[i].col # series[2][k].name

====
